---- MODULE Spec2Model ----
(***************************************************************************)
(* RXtoRINEX V2.0: the OSP message dispatcher (GNSSdataFromOSP), the 50bps *)
(* navigation subframe assembler and the RinexData filter / writer, as     *)
(* state machines.  One action per message handler or RinexData method.    *)
(***************************************************************************)
EXTENDS Integers, Sequences, FiniteSets, TLC

(***************************************************************************)
(* Program constants                                                       *)
(***************************************************************************)
MAXCHANNELS == 32
MAXSUBFR == 5
MAXGLOSATS == 14
FIRSTGLOSAT == 70
LASTGLOSAT == 83
FIRSTGPSSAT == 1
LASTGPSSAT == 32
FIRSTSBASSAT == 101
LASTSBASSAT == 200
MAXPAYLOADSIZE == 2048
\* default of the --minsv option, passed to the GNSSdataFromOSP constructor
MinSVSfix == 4

(***************************************************************************)
(* Bounds of the model                                                     *)
(***************************************************************************)
\* number of messages read from the OSP file in one run
MaxMsgs == 4
\* number of messages read from a file of MID 8 messages in one run
MaxNavMsgs == 4
\* number of messages read up to a GLONASS string in one run (five strings
\* make an ephemeris)
MaxGLOMsgs == 5
\* number of measurements the channel-observation buffer, and of observations
\* the epoch storage, may hold
MaxObs == 3
\* receiver channels whose subframe slots are tracked
NumCh == 1
\* number of setFilter calls / RINEX records handled in one run
MaxOps == 5
\* largest patience a caller of readOSPmsg gives
MaxPatience == 3
\* number of readOSPmsg calls in one run
MaxReads == 2
\* number of MID 8 messages acqGLOparams reads
MaxParamMsgs == 2
\* number of lines the header of a RINEX input file has
MaxHdLines == 3
\* widest bit field getTwosComplement is called on
MaxWidth == 6
\* largest number of satellites an epoch line of a V2.10 file declares
MaxDeclared == 66

(***************************************************************************)
(* unsigned int: a 32 bit word is the set of the positions of its bits     *)
(* that are 1, bit 0 the least significant                                 *)
(***************************************************************************)
Pow2(n) == 2^n
\* bit i of a natural number below 2^31
Bit(x, i) == (x \div Pow2(i)) % 2
\* the word 0xHHHHLLLL, from its upper and lower 16 bits
U32(hi, lo) == {i \in 0..31 : IF i < 16 THEN Bit(lo, i) = 1 ELSE Bit(hi, i - 16) = 1}
\* bit i of a word
BitOf(w, i) == IF i \in w THEN 1 ELSE 0
\* the value of the n low bits of a word (n <= 30)
RECURSIVE Val(_, _)
Val(w, n) == IF n = 0 THEN 0 ELSE BitOf(w, n - 1) * Pow2(n - 1) + Val(w, n - 1)
\* x >> n
Shr(x, n) == {i \in 0..31 : (i + n) \in x}
\* x << n
Shl(x, n) == {i \in 0..31 : i >= n /\ (i - n) \in x}
\* ~x
Not32(x) == (0..31) \ x
\* x & y
And32(x, y) == x \cap y
\* x | y
Or32(x, y) == x \cup y

\* GNSSdataFromOSP::bitsSet
bitsSet(lw) == Cardinality(lw)

\* Utilities getBits: len bits of a stream of 32 bit words, from bit bitpos
RECURSIVE getBits(_, _, _)
getBits(stream, bitpos, len) ==
    IF len = 0 THEN 0
    ELSE BitOf(stream[(bitpos \div 32) + 1], bitpos % 32)
         + 2 * getBits(stream, bitpos + 1, len - 1)

(***************************************************************************)
(* Floating point time tags: small naturals, and one NaN that compares     *)
(* unequal to everything, itself included                                  *)
(***************************************************************************)
NaN == 0 - 1
FEq(a, b) == a # NaN /\ b # NaN /\ a = b

(***************************************************************************)
(* State                                                                   *)
(***************************************************************************)
VARIABLES
    \* ---- driver (OSPtoRINEX main / RINEXtoRINEX main)
    pc,             \* "header", "epoch", "print", "eof", "abort", "rinex",
                    \* "gloparams", "packets", "synch", "rdheader", "rdepoch",
                    \* "call", "done", "twice"
    msgCount,       \* messages read from the OSP file so far
    \* ---- GNSSdataFromOSP
    message,        \* OSPMessage: the payload filled by the last fill()
    applyBias,
    epochGPSweek, epochGPStow, epochClkBias,
    hdrFlags,       \* locals of acqHeaderData
    chSatObs,       \* vector<ChannelObs>
    subfrmCh,       \* SubframeData [channel][subframe index]
    satGLOslt,      \* GLONASSslot [sv - FIRSTGLOSAT]
    \* ---- RinexData
    version, systemId,
    systems,        \* vector<GNSSsystem>
    applyObsFilter, applyNavFilter, selectedSats,
    epochObs, epochTimeTag, epochNav,
    rnxEpoch,       \* epochWeek, epochTOW, epochClkOffset
    hdData,         \* header records set by the dispatcher
    opCount,        \* RinexData calls made by the RINEX driver so far
    \* ---- what the program has produced
    obsOut,         \* observation records of the last printed epoch
    navOut,         \* navigation records written by the last printNavEpoch
    navFwd,         \* ephemeris sets forwarded to the scaler, per pipeline
    mid7Lost,       \* "MID7 lost" warnings logged (epochs discarded unprinted)
    lastFilter,     \* the two lists given to the last setFilter call
    obsIn,          \* epochObs as the last printObsEpoch call found it
    navIn,          \* the last three messages getMID8GPSNavData had, each with the forwards counted before it
    \* ---- the packet readers (SerialTxRx, PacketToOSP)
    reader,         \* "serial" (SerialTxRx on a port) or "file" (PacketToOSP on a file)
    input,          \* the bytes the source delivers, and where its first packet lies
    pos,            \* number of bytes taken from the source so far
    nRead,          \* calls of readOSPmsg made
    synState,       \* synchOSPmsg: state
    patience,       \* synchOSPmsg: patience
    payloadLen, payBuff,
    rdRet,          \* value the last readOSPmsg returned (-1: none yet)
    patience0,      \* the patience the caller gave
    synBytes,       \* bytes synchOSPmsg has taken in this call
    synFails,       \* reads of synchOSPmsg that gave no byte in this call
    syncPos,        \* pos when synchOSPmsg last returned true
    \* ---- the RINEX file reader (readRinexHeader, readV2ObsEpoch)
    hdInput,        \* the labels of the lines of the input file, in order
    hdRead,         \* lines readRinexHeader has taken from the file
    lineOrder,      \* readRinexHeader: lineOrder when it returned
    hdRet,          \* label readRinexHeader returned ("none": not called yet)
    epochLine,      \* the epoch line readV2ObsEpoch is given
    satsInEpoch,    \* entries of sysInEpoch / prnInEpoch written by the last call
    epochRet,       \* value the last readV2ObsEpoch returned (-1: none yet)
    \* ---- a single call whose return value is looked at
    fnIn,           \* the arguments of the call
    fnOut           \* <<the value returned>> (<<>>: not called yet)

dec == <<message, applyBias, epochGPSweek, epochGPStow, epochClkBias, hdrFlags,
         chSatObs, subfrmCh, satGLOslt>>
rnx == <<version, systemId, systems, applyObsFilter, applyNavFilter, selectedSats,
         epochObs, epochTimeTag, epochNav, rnxEpoch, hdData, opCount>>
out == <<obsOut, navOut, navFwd, mid7Lost, lastFilter, obsIn>>
ser == <<reader, input, pos, nRead, synState, patience, payloadLen, payBuff, rdRet,
         patience0, synBytes, synFails, syncPos>>
rdr == <<hdInput, hdRead, lineOrder, hdRet, epochLine, satsInEpoch, epochRet>>
fn == <<fnIn, fnOut>>
vars == <<pc, msgCount, navIn, dec, rnx, out, ser, rdr, fn>>

Channels == 0..(NumCh - 1)
ZeroW == U32(0, 0)
ZeroWords == [i \in 1..10 |-> ZeroW]
\* a slot of subfrmCh; set tells whether words was ever written
EmptySlot == [sv |-> 0, set |-> FALSE, words |-> ZeroWords]

\* a payload: the fields a handler may read, and the payload length that
\* decides which of them can be read before OSPMessage throws.  The handlers
\* of MID 8 read wd only; nav names what the satellite sent in it (subframe
\* or string number, issue of data or slot number, page)
Msg(mid, len) ==
    [mid |-> mid, len |-> len, ch |-> 0, sv |-> 0, sats |-> 0, week |-> 0,
     tow |-> 0, bias |-> 0, tTag |-> 0, sync |-> 0, cn0 |-> 0, wd |-> ZeroWords,
     nav |-> <<0, 0, 0>>]
NoMsg == Msg(0, 0)

\* GNSSsystem constructor
GNSSsystem(sys, obsT) ==
    [system |-> sys, selSystem |-> TRUE, obsType |-> obsT,
     selObsType |-> [i \in 1..Len(obsT) |-> TRUE], selSat |-> <<>>]

(***************************************************************************)
(* RinexData: filter set-up.  Tokens of the satellite list are character   *)
(* sequences (<<"G">>, <<"G","5">>, <<"G","0","5">>); tokens of the        *)
(* observable list are the system character and the observable code.       *)
(* Indexes into systems and obsType are 1-based here, 0 meaning not found. *)
(***************************************************************************)
DigitChars == <<"0", "1", "2", "3", "4", "5", "6", "7", "8", "9">>
IsDigit(c) == \E d \in 1..10 : DigitChars[d] = c
DigitVal(c) == (CHOOSE d \in 1..10 : DigitChars[d] = c) - 1

\* the %d conversion of sscanf / stoi: the decimal number starting at s[p]
RECURSIVE ScanInt(_, _, _)
ScanInt(s, p, acc) ==
    IF p > Len(s) \/ ~IsDigit(s[p]) THEN acc
    ELSE ScanInt(s, p + 1, acc * 10 + DigitVal(s[p]))

\* the %02.2d conversion of sprintf
Fmt02(n) ==
    IF n < 100 THEN <<DigitChars[(n \div 10) + 1], DigitChars[(n % 10) + 1]>>
    ELSE <<DigitChars[((n \div 100) % 10) + 1], DigitChars[((n \div 10) % 10) + 1],
           DigitChars[(n % 10) + 1]>>

\* sprintf(buffer, "%1c%02.2d", sys, sat)
SatToken(sys, sat) == <<sys>> \o Fmt02(sat)

\* string(a).compare(0, b.size(), b) == 0
IsPrefix(b, a) == Len(b) <= Len(a) /\ \A i \in 1..Len(b) : a[i] = b[i]

\* RinexData::sysInx
sysInx(sysv, sysCode) ==
    IF \E i \in 1..Len(sysv) : sysv[i].system = sysCode
    THEN CHOOSE i \in 1..Len(sysv) :
            /\ sysv[i].system = sysCode
            /\ \A j \in 1..(i - 1) : sysv[j].system # sysCode
    ELSE 0

\* index of an observable code in a system's obsType list, 0 if absent
obsInx(sysv, sx, code) ==
    IF \E n \in 1..Len(sysv[sx].obsType) : sysv[sx].obsType[n] = code
    THEN CHOOSE n \in 1..Len(sysv[sx].obsType) :
            /\ sysv[sx].obsType[n] = code
            /\ \A j \in 1..(n - 1) : sysv[sx].obsType[j] # code
    ELSE 0

\* setFilter, 1st step: selectedSats in the normalised notation S[nn]
RECURSIVE NormSelSats(_)
NormSelSats(sel) ==
    IF sel = <<>> THEN <<>>
    ELSE LET t == Head(sel)
             r == NormSelSats(Tail(sel))
         IN IF Len(t) = 0 THEN r
            ELSE IF Len(t) >= 2 /\ IsDigit(t[2])
                 THEN <<SatToken(t[1], ScanInt(t, 2, 0))>> \o r
                 ELSE << <<t[1]>> >> \o r

\* the PRNs setFilter pushes on systems[sx].selSat, in list order
RECURSIVE PrnsFor(_, _, _)
PrnsFor(sysv, sx, sats) ==
    IF sats = <<>> THEN <<>>
    ELSE LET t == Head(sats)
             r == PrnsFor(sysv, sx, Tail(sats))
         IN IF sysInx(sysv, t[1]) = sx /\ Len(t) > 1
            THEN <<ScanInt(t, 2, 0)>> \o r ELSE r

\* the reset at the top of setFilter: flags back to "selected"
ResetSelection(sysv) ==
    [i \in 1..Len(sysv) |->
        [sysv[i] EXCEPT !.selSystem = TRUE,
                        !.selObsType = [o \in 1..Len(sysv[i].obsType) |-> TRUE]]]

\* RinexData::setFilter: the new filtering state and the value returned
setFilter_clearsWhenWrong(sysv0, selSat, selObs) ==
    LET sysv == ResetSelection(sysv0)
        sats == NormSelSats(selSat)
        nS == Len(sysv)
        SeqRange(s) == {s[i] : i \in 1..Len(s)}
        goodObs == {t \in SeqRange(selObs) :
                       /\ sysInx(sysv, t.sys) > 0
                       /\ obsInx(sysv, sysInx(sysv, t.sys), t.obs) > 0}
        inxSysObs == {sysInx(sysv, t.sys) : t \in goodObs}
        inxSelSys == ({sysInx(sysv, t[1]) : t \in SeqRange(sats)} \ {0})
                     \cup inxSysObs
        selObsOf(sx) == {obsInx(sysv, sx, t.obs) :
                            t \in {u \in goodObs : sysInx(sysv, u.sys) = sx}}
        newSys == [i \in 1..nS |->
            [sysv[i] EXCEPT
                !.selSat = sysv[i].selSat \o PrnsFor(sysv, i, sats),
                !.selSystem = IF inxSelSys = {} THEN TRUE ELSE i \in inxSelSys,
                !.selObsType = IF i \in inxSysObs
                               THEN [o \in 1..Len(sysv[i].obsType) |-> o \in selObsOf(i)]
                               ELSE sysv[i].selObsType]]
        coherent == /\ \A t \in SeqRange(sats) : sysInx(sysv, t[1]) > 0
                    /\ \A t \in SeqRange(selObs) : t \in goodObs
    IN IF (selSat = <<>> /\ selObs = <<>>) \/ ~coherent
       THEN [systems |-> sysv, applyObs |-> FALSE, applyNav |-> FALSE,
             selectedSats |-> <<>>, ret |-> coherent]
       ELSE [systems |-> newSys,
             applyObs |-> \E i \in 1..nS : newSys[i].selSystem,
             applyNav |-> sats # <<>>,
             selectedSats |-> sats,
             ret |-> coherent]
setFilter(sysv0, selSat, selObs) ==
    LET sysv == ResetSelection(sysv0)
        sats == NormSelSats(selSat)
        nS == Len(sysv)
        SeqRange(s) == {s[i] : i \in 1..Len(s)}
        goodObs == {t \in SeqRange(selObs) :
                       /\ sysInx(sysv, t.sys) > 0
                       /\ obsInx(sysv, sysInx(sysv, t.sys), t.obs) > 0}
        inxSysObs == {sysInx(sysv, t.sys) : t \in goodObs}
        inxSelSys == ({sysInx(sysv, t[1]) : t \in SeqRange(sats)} \ {0})
                     \cup inxSysObs
        selObsOf(sx) == {obsInx(sysv, sx, t.obs) :
                            t \in {u \in goodObs : sysInx(sysv, u.sys) = sx}}
        newSys == [i \in 1..nS |->
            [sysv[i] EXCEPT
                !.selSat = sysv[i].selSat \o PrnsFor(sysv, i, sats),
                !.selSystem = IF inxSelSys = {} THEN TRUE ELSE i \in inxSelSys,
                !.selObsType = IF i \in inxSysObs
                               THEN [o \in 1..Len(sysv[i].obsType) |-> o \in selObsOf(i)]
                               ELSE sysv[i].selObsType]]
    IN IF selSat = <<>> /\ selObs = <<>>
       THEN [systems |-> sysv, applyObs |-> FALSE, applyNav |-> FALSE,
             selectedSats |-> <<>>, ret |-> TRUE]
       ELSE [systems |-> newSys,
             applyObs |-> \E i \in 1..nS : newSys[i].selSystem,
             applyNav |-> sats # <<>>,
             selectedSats |-> sats,
             ret |-> /\ \A t \in SeqRange(sats) : sysInx(sysv, t[1]) > 0
                     /\ \A t \in SeqRange(selObs) : t \in goodObs]

\* RinexData::isSatSelected
isSatSelected(sysv, sysIx, sat) ==
    \/ sysv[sysIx].selSat = <<>>
    \/ \E k \in 1..Len(sysv[sysIx].selSat) : sysv[sysIx].selSat[k] = sat

\* SatObsData::operator<: time tag, system, satellite, observable; true also
\* for two records with the same four values
ObsBefore(a, b) ==
    IF a.obsTimeTag > b.obsTimeTag THEN FALSE
    ELSE IF a.obsTimeTag < b.obsTimeTag THEN TRUE
    ELSE IF a.sysIndex > b.sysIndex THEN FALSE
    ELSE IF a.sysIndex < b.sysIndex THEN TRUE
    ELSE IF a.satellite > b.satellite THEN FALSE
    ELSE IF a.satellite < b.satellite THEN TRUE
    ELSE ~(a.obsTypeIndex > b.obsTypeIndex)

\* sort(epochObs.begin(), epochObs.end()): insertion of each element behind the
\* ones not after it
RECURSIVE InsertObs(_, _)
InsertObs(x, s) ==
    IF s = <<>> THEN <<x>>
    ELSE IF ObsBefore(x, Head(s)) THEN <<x>> \o s
    ELSE <<Head(s)>> \o InsertObs(x, Tail(s))
RECURSIVE SortObs(_)
SortObs(s) ==
    IF s = <<>> THEN <<>> ELSE InsertObs(Head(s), SortObs(Tail(s)))

\* the removal loop of RinexData::filterObsData, then its sort
filterObsData_noObsTypeCheck(sysv, applyObs, obs) ==
    LET Keep(r) == /\ sysv[r.sysIndex].selSystem
                   /\ isSatSelected(sysv, r.sysIndex, r.satellite)
    IN SortObs(IF applyObs THEN SelectSeq(obs, Keep) ELSE obs)
filterObsData(sysv, applyObs, obs) ==
    LET Keep(r) == /\ sysv[r.sysIndex].selSystem
                   /\ sysv[r.sysIndex].selObsType[r.obsTypeIndex]
                   /\ isSatSelected(sysv, r.sysIndex, r.satellite)
    IN SortObs(IF applyObs THEN SelectSeq(obs, Keep) ELSE obs)

\* RinexData::saveObsData on the pair (epochObs, epochTimeTag)
saveObsData_noTagCheck(sysv, st, sys, sat, obsType, tTag) ==
    LET sx == sysInx(sysv, sys)
        tag == IF st.obs = <<>> THEN tTag ELSE st.tag
        ox == IF sx > 0 THEN obsInx(sysv, sx, obsType) ELSE 0
    IN IF sx > 0 /\ ox > 0
       THEN [obs |-> Append(st.obs, [obsTimeTag |-> tTag, sysIndex |-> sx,
                                    satellite |-> sat, obsTypeIndex |-> ox]),
             tag |-> tag]
       ELSE [obs |-> st.obs, tag |-> tag]
saveObsData(sysv, st, sys, sat, obsType, tTag) ==
    LET sx == sysInx(sysv, sys)
        tag == IF st.obs = <<>> THEN tTag ELSE st.tag
        ox == IF sx > 0 THEN obsInx(sysv, sx, obsType) ELSE 0
    IN IF FEq(tag, tTag) /\ sx > 0 /\ ox > 0
       THEN [obs |-> Append(st.obs, [obsTimeTag |-> tTag, sysIndex |-> sx,
                                    satellite |-> sat, obsTypeIndex |-> ox]),
             tag |-> tag]
       ELSE [obs |-> st.obs, tag |-> tag]

\* the observables OSPtoRINEX declares for every system of the input
OSPobservables == <<"C1C", "L1C", "D1C", "S1C">>

\* GNSSdataFromOSP constructor, setTblValues; RinexData::setDefValues
InitCommon ==
    /\ msgCount = 0
    /\ navIn = <<>>
    /\ message = NoMsg
    /\ epochGPSweek = 0 /\ epochGPStow = 0 /\ epochClkBias = 0
    /\ hdrFlags = [apxSet |-> FALSE, rxIdSet |-> FALSE, frsEphSet |-> FALSE,
                   intrvBegin |-> FALSE, intrvSet |-> FALSE]
    /\ chSatObs = <<>>
    /\ subfrmCh = [c \in Channels |-> [i \in 0..(MAXSUBFR - 1) |-> EmptySlot]]
    /\ satGLOslt = [s \in 0..(MAXGLOSATS - 1) |-> [rcvCh |-> 0, slot |-> 0]]
    /\ epochObs = <<>> /\ epochTimeTag = 0 /\ epochNav = <<>>
    /\ rnxEpoch = [week |-> 0, tow |-> 0, clkOffset |-> 0]
    /\ hdData = [appxyz |-> FALSE, receiver |-> FALSE, tofo |-> <<>>, int |-> <<>>]
    /\ opCount = 0
    /\ obsOut = <<>> /\ navOut = <<>> /\ obsIn = <<>>
    /\ navFwd = [G |-> 0, R |-> 0]
    /\ mid7Lost = 0

\* no packet reader at work
NoPort ==
    /\ reader = "none"
    /\ input = [bytes |-> <<>>, first |-> 0, last |-> 0, kind |-> "none", bad |-> 0]
    /\ pos = 0 /\ nRead = 0
    /\ synState = 1 /\ patience = 0 /\ patience0 = 0
    /\ payloadLen = 0 /\ payBuff = <<>> /\ rdRet = 0 - 1
    /\ synBytes = <<>> /\ synFails = 0 /\ syncPos = 0

\* no RINEX file being read
NoFile ==
    /\ hdInput = <<>> /\ hdRead = 0 /\ lineOrder = 0 /\ hdRet = "none"
    /\ epochLine = [flag |-> 0, nSats |-> 0, wrongDate |-> FALSE]
    /\ satsInEpoch = 0 /\ epochRet = 0 - 1

\* no function called on its own
NoCall == fnIn = <<>> /\ fnOut = <<>>

\* generateRINEX, step 1: TOBS for G and R (option -s R), then setFilter with
\* the selected systems and no observables
OSPfilter ==
    setFilter(<<GNSSsystem("G", OSPobservables), GNSSsystem("R", OSPobservables)>>,
              << <<"G">>, <<"R">> >>, <<>>)

\* generateRINEX up to the acqHeaderData call, version V3.02 requested
InitOSP ==
    /\ InitCommon
    /\ NoPort /\ NoFile /\ NoCall
    /\ version = "V302" /\ systemId = " "
    /\ systems = OSPfilter.systems
    /\ applyObsFilter = OSPfilter.applyObs
    /\ applyNavFilter = OSPfilter.applyNav
    /\ selectedSats = OSPfilter.selectedSats
    /\ lastFilter = [sat |-> << <<"G">>, <<"R">> >>, obs |-> <<>>]

Init ==
    /\ InitOSP
    /\ applyBias \in BOOLEAN
    /\ pc = "header"

(***************************************************************************)
(* Messages the OSP file may hold (the inputs of the dispatcher)           *)
(***************************************************************************)
\* clock status: full length, or cut after the satellite count
MID7msgs ==
    {[Msg(7, l) EXCEPT !.week = 1800, !.tow = t, !.sats = s, !.bias = 5] :
        l \in {20, 9}, t \in {100, 200}, s \in {MinSVSfix - 1, MinSVSfix}}

\* channel measurement: acquisition complete (sync 0x13) or not (0x12)
MID28full ==
    {[Msg(28, 56) EXCEPT !.sv = v, !.tTag = t, !.sync = y, !.cn0 = 30] :
        v \in {5, 70}, t \in {1, 2}, y \in {19, 18}}
MID28msgs ==
    MID28full \cup
    { [Msg(28, 56) EXCEPT !.sv = 5, !.tTag = NaN, !.sync = 19, !.cn0 = 30],
      [Msg(28, 30) EXCEPT !.sv = 5, !.tTag = 2, !.sync = 19, !.cn0 = 30],
      [Msg(28, 56) EXCEPT !.sv = 40, !.tTag = 2, !.sync = 19, !.cn0 = 30] }

\* position fix
MID2msgs ==
    {[Msg(2, l) EXCEPT !.week = 776, !.tow = 100, !.sats = s] :
        l \in {41, 20}, s \in {MinSVSfix - 1, MinSVSfix}}

\* software version: the two length bytes add up to sats; complete or cut
MID6msgs == {[Msg(6, l) EXCEPT !.sats = 4] : l \in {7, 5}}

\* a message no case of the dispatcher handles
OtherMsgs == {Msg(4, 10)}

(***************************************************************************)
(* GNSSdataFromOSP: message handlers                                       *)
(***************************************************************************)
\* getMID7TimeData: what it leaves in the epoch members and in the RinexData
\* epoch time, and its result.  Reads: week 1-2, tow 3-6, sats 7, drift 8-11,
\* bias 12-15; each read throws when it would pass the payload end.
getMID7TimeData_noSatCheck(m) ==
    LET rdWeek == m.len >= 3
        rdTow == m.len >= 7
        ok == m.len >= 16
        week == IF rdWeek THEN m.week ELSE epochGPSweek
        bias == IF ~ok THEN epochClkBias ELSE IF applyBias THEN m.bias ELSE 0
        tow == IF ~rdTow THEN epochGPStow
               ELSE IF ok /\ ~applyBias THEN m.tow + m.bias ELSE m.tow
    IN [ok |-> ok, week |-> week, tow |-> tow, bias |-> bias,
        rnxEpoch |-> IF ok THEN [week |-> week, tow |-> tow, clkOffset |-> bias]
                     ELSE rnxEpoch]
getMID7TimeData(m) ==
    LET rdWeek == m.len >= 3
        rdTow == m.len >= 7
        ok == m.len >= 16 /\ m.sats >= MinSVSfix
        week == IF rdWeek THEN m.week ELSE epochGPSweek
        bias == IF ~ok THEN epochClkBias ELSE IF applyBias THEN m.bias ELSE 0
        tow == IF ~rdTow THEN epochGPStow
               ELSE IF ok /\ ~applyBias THEN m.tow + m.bias ELSE m.tow
    IN [ok |-> ok, week |-> week, tow |-> tow, bias |-> bias,
        rnxEpoch |-> IF ok THEN [week |-> week, tow |-> tow, clkOffset |-> bias]
                     ELSE rnxEpoch]

\* getMID7Interval: reads week, tow, sats and sets INTERVAL
getMID7Interval(m) ==
    LET ok == m.len >= 8 /\ m.sats >= MinSVSfix
    IN [ok |-> ok,
        int |-> IF ok THEN <<(m.tow - epochGPStow) + (m.week - epochGPSweek) * 604800>>
                ELSE hdData.int]

\* getMID2xyz: x 1-4, y 5-8, z 9-12, 9 bytes skipped, week 22-23, tow 24-27,
\* satellites 28
getMID2xyz(m) ==
    [ok |-> m.len >= 29 /\ m.sats >= MinSVSfix,
     week |-> IF m.len >= 24 THEN m.week + 1024 ELSE epochGPSweek,
     tow |-> IF m.len >= 28 THEN m.tow ELSE epochGPStow]

\* getGLOslot
getGLOslot(ch, sat) ==
    IF sat >= FIRSTGLOSAT /\ sat <= LASTGLOSAT /\ satGLOslt[sat - FIRSTGLOSAT].slot > 0
    THEN satGLOslt[sat - FIRSTGLOSAT].slot ELSE sat

\* getMID28ObsData, the satellite number ranges it accepts
svInRange(sv) ==
    \/ (sv >= FIRSTGPSSAT /\ sv <= LASTGPSSAT)
    \/ (sv >= FIRSTGLOSAT /\ sv <= LASTGLOSAT)
    \/ (sv >= FIRSTSBASSAT /\ sv <= LASTSBASSAT)

\* getMID28ObsData, the ChannelObs it builds from a message read to its end
ChannelObs(m) ==
    LET sys == IF m.sv >= FIRSTGPSSAT /\ m.sv <= LASTGPSSAT THEN "G"
               ELSE IF m.sv >= FIRSTGLOSAT /\ m.sv <= LASTGLOSAT THEN "R" ELSE "S"
        satID == IF sys = "G" THEN m.sv
                 ELSE IF sys = "R" THEN getGLOslot(m.ch, m.sv) ELSE m.sv - 100
        q == m.cn0 \div 6
        strengthIndex == IF q < 1 THEN 1 ELSE IF q > 9 THEN 9 ELSE q
    IN [system |-> sys, satPrn |-> satID, strgIdx |-> strengthIndex, timeT |-> m.tTag]

\* getMID28ObsData: the buffer after the call, its result and sameEpoch.
\* Reads: channel 1, tag 2-5, sv 6, then 43 more bytes up to offset 49.
getMID28ObsData_cmpLast(m) ==
    LET stored == m.len >= 7 /\ svInRange(m.sv) /\ m.len >= 50 /\ Bit(m.sync, 0) = 1
        buf == IF stored THEN Append(chSatObs, ChannelObs(m)) ELSE chSatObs
    IN [ret |-> stored,
        sameEpoch |-> stored /\ FEq(m.tTag, buf[Len(buf)].timeT),
        chSatObs |-> buf]
getMID28ObsData(m) ==
    LET stored == m.len >= 7 /\ svInRange(m.sv) /\ m.len >= 50 /\ Bit(m.sync, 0) = 1
        buf == IF stored THEN Append(chSatObs, ChannelObs(m)) ELSE chSatObs
    IN [ret |-> stored,
        sameEpoch |-> stored /\ FEq(m.tTag, buf[1].timeT),
        chSatObs |-> buf]

\* the four saveObsData calls acqEpochData makes for every buffered channel
RECURSIVE SaveEpochObs(_, _)
SaveEpochObs(buf, st) ==
    IF buf = <<>> THEN st
    ELSE LET o == Head(buf)
             s1 == saveObsData(systems, st, o.system, o.satPrn, "C1C", o.timeT)
             s2 == saveObsData(systems, s1, o.system, o.satPrn, "L1C", o.timeT)
             s3 == saveObsData(systems, s2, o.system, o.satPrn, "D1C", o.timeT)
             s4 == saveObsData(systems, s3, o.system, o.satPrn, "S1C", o.timeT)
         IN SaveEpochObs(Tail(buf), s4)

(***************************************************************************)
(* acqHeaderData(RinexData&): one action per case of its loop body         *)
(***************************************************************************)
AllHdrSet == hdrFlags.apxSet /\ hdrFlags.rxIdSet /\ hdrFlags.frsEphSet /\ hdrFlags.intrvSet

\* OSPMessage::fill hands over the next message of the file
\* OSPMessage::fill on a record with the given length field of which the
\* file holds got payload bytes: true when the message is taken
fill(payloadLength, got) ==
    IF payloadLength > MAXPAYLOADSIZE THEN FALSE
    ELSE IF got < payloadLength THEN FALSE
    ELSE TRUE
Fill(m, max) ==
    /\ msgCount < max
    /\ fill(m.len, m.len)
    /\ message' = m
    /\ msgCount' = msgCount + 1
ReadsMsg(m) == Fill(m, MaxMsgs)
ReadsNav(m) == Fill(m, MaxNavMsgs)
ReadsGLO(m) == Fill(m, MaxGLOMsgs)

\* fill() fails, or every header datum is in: acqHeaderData returns; the driver
\* prints the header, rewinds the file and enters the acqEpochData loop
HdrReturn ==
    /\ UNCHANGED <<ser, rdr, fn>>
    /\ pc = "header"
    /\ pc' = "epoch"
    /\ UNCHANGED <<msgCount, navIn, dec, rnx, out>>

\* message.get() on an empty payload throws outside every try block
HdrEmptyPayload ==
    /\ UNCHANGED <<ser, rdr, fn>>
    /\ pc = "header" /\ ~AllHdrSet
    /\ ReadsMsg(Msg(0, 0))
    /\ pc' = "abort"
    /\ UNCHANGED <<navIn, applyBias, epochGPSweek, epochGPStow, epochClkBias, hdrFlags,
                   chSatObs, subfrmCh, satGLOslt, rnx, out>>

HdrMID2 ==
    /\ UNCHANGED <<ser, rdr, fn>>
    /\ pc = "header" /\ ~AllHdrSet
    /\ \E m \in MID2msgs :
        LET r == getMID2xyz(m) IN
        /\ ReadsMsg(m)
        /\ IF hdrFlags.apxSet
           THEN UNCHANGED <<epochGPSweek, epochGPStow, hdrFlags, hdData>>
           ELSE /\ epochGPSweek' = r.week
                /\ epochGPStow' = r.tow
                /\ hdrFlags' = [hdrFlags EXCEPT !.apxSet = r.ok]
                /\ hdData' = IF r.ok THEN [hdData EXCEPT !.appxyz = TRUE] ELSE hdData
    /\ UNCHANGED <<navIn, pc, applyBias, epochClkBias, chSatObs, subfrmCh, satGLOslt,
                   version, systemId, systems, applyObsFilter, applyNavFilter,
                   selectedSats, epochObs, epochTimeTag, epochNav, rnxEpoch,
                   opCount, out>>

\* getMID6RxData: the two length bytes, then that many characters
HdrMID6 ==
    /\ UNCHANGED <<ser, rdr, fn>>
    /\ pc = "header" /\ ~AllHdrSet
    /\ \E m \in MID6msgs :
        LET ok == m.len >= 3 + m.sats IN
        /\ ReadsMsg(m)
        /\ IF hdrFlags.rxIdSet
           THEN UNCHANGED <<hdrFlags, hdData>>
           ELSE /\ hdrFlags' = [hdrFlags EXCEPT !.rxIdSet = ok]
                /\ hdData' = IF ok THEN [hdData EXCEPT !.receiver = TRUE] ELSE hdData
    /\ UNCHANGED <<navIn, pc, applyBias, epochGPSweek, epochGPStow, epochClkBias, chSatObs,
                   subfrmCh, satGLOslt, version, systemId, systems, applyObsFilter,
                   applyNavFilter, selectedSats, epochObs, epochTimeTag, epochNav,
                   rnxEpoch, opCount, out>>

HdrMID7 ==
    /\ UNCHANGED <<ser, rdr, fn>>
    /\ pc = "header" /\ ~AllHdrSet
    /\ \E m \in MID7msgs :
        LET r == getMID7TimeData(m)
            v == getMID7Interval(m)
        IN
        /\ ReadsMsg(m)
        /\ IF ~hdrFlags.frsEphSet
           THEN \* first epoch; setHdLnData(TOFO) follows whatever the result
                /\ epochGPSweek' = r.week /\ epochGPStow' = r.tow
                /\ epochClkBias' = r.bias /\ rnxEpoch' = r.rnxEpoch
                /\ hdrFlags' = [hdrFlags EXCEPT !.frsEphSet = r.ok, !.intrvBegin = r.ok]
                /\ hdData' = [hdData EXCEPT !.tofo = <<r.rnxEpoch.week, r.rnxEpoch.tow>>]
           ELSE IF ~hdrFlags.intrvBegin
           THEN /\ epochGPSweek' = r.week /\ epochGPStow' = r.tow
                /\ epochClkBias' = r.bias /\ rnxEpoch' = r.rnxEpoch
                /\ hdrFlags' = [hdrFlags EXCEPT !.intrvBegin = r.ok]
                /\ UNCHANGED hdData
           ELSE IF ~hdrFlags.intrvSet
           THEN /\ hdrFlags' = [hdrFlags EXCEPT !.intrvBegin = v.ok, !.intrvSet = v.ok]
                /\ hdData' = [hdData EXCEPT !.int = v.int]
                /\ UNCHANGED <<epochGPSweek, epochGPStow, epochClkBias, rnxEpoch>>
           ELSE UNCHANGED <<epochGPSweek, epochGPStow, epochClkBias, rnxEpoch,
                            hdrFlags, hdData>>
    /\ UNCHANGED <<navIn, pc, applyBias, chSatObs, subfrmCh, satGLOslt, version, systemId,
                   systems, applyObsFilter, applyNavFilter, selectedSats, epochObs,
                   epochTimeTag, epochNav, opCount, out>>

\* any other message: the default case
HdrOther ==
    /\ UNCHANGED <<ser, rdr, fn>>
    /\ pc = "header" /\ ~AllHdrSet
    /\ \E m \in OtherMsgs \cup MID28msgs : ReadsMsg(m)
    /\ UNCHANGED <<navIn, pc, applyBias, epochGPSweek, epochGPStow, epochClkBias, hdrFlags,
                   chSatObs, subfrmCh, satGLOslt, rnx, out>>

(***************************************************************************)
(* RinexData: printing one observation epoch (V3.02 branch)                *)
(***************************************************************************)
\* the do / while (printSatObsValues(out, 999)) loop: the records written, in
\* order.  PrintSat is the loop of printSatObsValues for the satellite at the
\* head of epochObs; obsToPrint is the next observable column (1-based here).
RECURSIVE PrintAll(_)
RECURSIVE PrintSat(_, _, _, _)
PrintAll(obs) ==
    IF obs = <<>> THEN <<>>
    ELSE PrintSat(obs, Head(obs).sysIndex, Head(obs).satellite, 1)
PrintSat(obs, sysToPrint, satToPrint, obsToPrint) ==
    IF obs = <<>> \/ Head(obs).sysIndex # sysToPrint \/ Head(obs).satellite # satToPrint
    THEN PrintAll(obs)
    ELSE IF Head(obs).obsTypeIndex < obsToPrint
    THEN PrintSat(Tail(obs), sysToPrint, satToPrint, obsToPrint)
    ELSE IF Head(obs).obsTypeIndex = obsToPrint
    THEN <<Head(obs)>> \o PrintSat(Tail(obs), sysToPrint, satToPrint, obsToPrint + 1)
    ELSE PrintSat(obs, sysToPrint, satToPrint, obsToPrint + 1)

\* RinexData::printObsEpoch, epoch flag 0, version V3.02
printObsEpoch_unsorted(sysv, applyObs, obs) == PrintAll(obs)
printObsEpoch(sysv, applyObs, obs) == PrintAll(filterObsData(sysv, applyObs, obs))

(***************************************************************************)
(* acqEpochData(RinexData&, useMID8G, useMID8R): one action per case       *)
(***************************************************************************)
\* fill() fails: acqEpochData returns false and the driver leaves its loop
EpochEOF ==
    /\ UNCHANGED <<ser, rdr, fn>>
    /\ pc = "epoch"
    /\ pc' = "eof"
    /\ UNCHANGED <<msgCount, navIn, dec, rnx, out>>

\* message.get() on an empty payload throws outside every try block, and the
\* drivers catch string only
EpochEmptyPayload ==
    /\ UNCHANGED <<ser, rdr, fn>>
    /\ pc = "epoch"
    /\ ReadsMsg(Msg(0, 0))
    /\ pc' = "abort"
    /\ UNCHANGED <<navIn, applyBias, epochGPSweek, epochGPStow, epochClkBias, hdrFlags,
                   chSatObs, subfrmCh, satGLOslt, rnx, out>>

\* case 7
EpochMID7 ==
    /\ UNCHANGED <<ser, rdr, fn>>
    /\ pc = "epoch"
    /\ \E m \in MID7msgs :
        LET r == getMID7TimeData(m)
            st == SaveEpochObs(chSatObs, [obs |-> epochObs, tag |-> epochTimeTag])
        IN
        /\ ReadsMsg(m)
        /\ epochGPSweek' = r.week /\ epochGPStow' = r.tow
        /\ epochClkBias' = r.bias /\ rnxEpoch' = r.rnxEpoch
        /\ IF r.ok /\ chSatObs # <<>>
           THEN /\ epochObs' = st.obs
                /\ epochTimeTag' = st.tag
                /\ chSatObs' = <<>>
                /\ pc' = "print"
           ELSE UNCHANGED <<epochObs, epochTimeTag, chSatObs, pc>>
    /\ UNCHANGED <<navIn, applyBias, hdrFlags, subfrmCh, satGLOslt, version, systemId,
                   systems, applyObsFilter, applyNavFilter, selectedSats, epochNav,
                   hdData, opCount, out>>

\* case 28
EpochMID28_keepsOld ==
    /\ UNCHANGED <<ser, rdr, fn>>
    /\ pc = "epoch"
    /\ Len(chSatObs) < MaxObs
    /\ \E m \in MID28msgs :
        LET r == getMID28ObsData(m) IN
        /\ ReadsMsg(m)
        /\ chSatObs' = r.chSatObs
        /\ mid7Lost' = IF r.ret /\ ~r.sameEpoch THEN mid7Lost + 1 ELSE mid7Lost
    /\ UNCHANGED <<navIn, pc, applyBias, epochGPSweek, epochGPStow, epochClkBias, hdrFlags,
                   subfrmCh, satGLOslt, rnx, obsOut, navOut, navFwd, lastFilter, obsIn>>
EpochMID28 ==
    /\ UNCHANGED <<ser, rdr, fn>>
    /\ pc = "epoch"
    /\ Len(chSatObs) < MaxObs
    /\ \E m \in MID28msgs :
        LET r == getMID28ObsData(m) IN
        /\ ReadsMsg(m)
        /\ IF r.ret /\ ~r.sameEpoch
           THEN \* erase(begin, end - 1) after the warning
                /\ chSatObs' = <<r.chSatObs[Len(r.chSatObs)]>>
                /\ mid7Lost' = mid7Lost + 1
           ELSE /\ chSatObs' = r.chSatObs
                /\ UNCHANGED mid7Lost
    /\ UNCHANGED <<navIn, pc, applyBias, epochGPSweek, epochGPStow, epochClkBias, hdrFlags,
                   subfrmCh, satGLOslt, rnx, obsOut, navOut, navFwd, lastFilter, obsIn>>

\* default case (in acqEpochData a MID 2 or MID 6 is one of them)
EpochOther ==
    /\ UNCHANGED <<ser, rdr, fn>>
    /\ pc = "epoch"
    /\ \E m \in OtherMsgs \cup MID2msgs : ReadsMsg(m)
    /\ UNCHANGED <<navIn, pc, applyBias, epochGPSweek, epochGPStow, epochClkBias, hdrFlags,
                   chSatObs, subfrmCh, satGLOslt, rnx, out>>

\* generateRINEX: rinex.printObsEpoch(obsFile) after acqEpochData returned true
PrintObsEpoch ==
    /\ UNCHANGED <<ser, rdr, fn>>
    /\ pc = "print"
    /\ obsOut' = printObsEpoch(systems, applyObsFilter, epochObs)
    /\ obsIn' = epochObs
    /\ epochObs' = <<>>
    /\ pc' = "epoch"
    /\ UNCHANGED <<msgCount, navIn, dec, version, systemId, systems, applyObsFilter,
                   applyNavFilter, selectedSats, epochTimeTag, epochNav, rnxEpoch,
                   hdData, opCount, navOut, navFwd, mid7Lost, lastFilter>>

\* the observation pipeline of OSPtoRINEX
NextEpoch ==
    \/ HdrReturn \/ HdrEmptyPayload \/ HdrMID2 \/ HdrMID6 \/ HdrMID7 \/ HdrOther
    \/ EpochEOF \/ EpochEmptyPayload \/ EpochMID7 \/ EpochMID28 \/ EpochOther
    \/ PrintObsEpoch

SpecEpoch == Init /\ [][NextEpoch]_vars

(***************************************************************************)
(* MID 8: 50 bps navigation data, GPS                                      *)
(***************************************************************************)
\* options -d and -c of OSPtoRINEX given: navigation data come from MID 8
UseMID8G == TRUE
UseMID8R == TRUE

parityBitMask_withoutD24 ==
    <<U32(47903, 13440), U32(23951, 39424), U32(44743, 52480),
      U32(22371, 59008), U32(27569, 62208), U32(35706, 35200)>>
parityBitMask ==
    <<U32(47903, 13440), U32(23951, 39488), U32(44743, 52480),
      U32(22371, 59008), U32(27569, 62272), U32(35706, 35264)>>

\* the six parity bits checkGPSparity computes for the stream toCheck
RECURSIVE parityOf(_, _)
parityOf(toCheck, i) ==
    IF i = 6 THEN 0
    ELSE (bitsSet(And32(parityBitMask[i + 1], toCheck)) % 2) * Pow2(5 - i)
         + parityOf(toCheck, i + 1)

\* checkGPSparity: the value of parity after its loop
GPSparity(d) ==
    LET toCheck == IF And32(d, U32(16384, 0)) # ZeroW
                   THEN Or32(And32(d, U32(49152, 0)), And32(Not32(d), U32(16383, 65535)))
                   ELSE d
    IN parityOf(toCheck, 0)

\* GNSSdataFromOSP::checkGPSparity
checkGPSparity(d) ==
    LET toCheck == IF And32(d, U32(16384, 0)) # ZeroW
                   THEN Or32(And32(d, U32(49152, 0)), And32(Not32(d), U32(16383, 65535)))
                   ELSE d
    IN parityOf(toCheck, 0) = Val(And32(d, U32(0, 63)), 6)

\* getMID8GPSNavData: the 24 data bits of a word, complemented when D30 is set
dataBits(w) ==
    IF And32(w, U32(16384, 0)) = ZeroW
    THEN And32(Shr(w, 6), U32(255, 65535))
    ELSE And32(Not32(Shr(w, 6)), U32(255, 65535))

\* a subframe as the satellite sends it: ten words of 24 data bits.  id in the
\* HOW; in subframe 1 the week number 776 (+1024 = 1800) in bits 14..23 of
\* word 3, the IODC low byte and Toc = 100 in word 8; the IODE in word 3 of
\* subframe 2 and word 10 of subframe 3; the page id in word 3 of subframe 4
GPSsubframe(id, iod, pg) ==
    [i \in 1..10 |->
        IF i = 2 THEN U32(0, id * 4)
        ELSE IF i = 3 THEN (IF id = 1 THEN U32(194, 0)
                            ELSE IF id = 2 THEN U32(iod, 0)
                            ELSE IF id >= 4 THEN U32(pg, 0) ELSE ZeroW)
        ELSE IF i = 8 /\ id = 1 THEN U32(iod, 100)
        ELSE IF i = 10 /\ id = 3 THEN U32(iod, 0)
        ELSE ZeroW]

\* a word as MID 8 carries it: D29 D30 d1 .. d24 and the six parity bits
GPSword(data, d29, d30) ==
    LET prev == U32(d29 * 32768 + d30 * 16384, 0)
        sent == IF d30 = 0 THEN data ELSE And32(Not32(data), U32(255, 65535))
    IN Or32(Or32(prev, Shl(sent, 6)), U32(0, parityOf(Or32(prev, Shl(data, 6)), 0)))

\* the MID 8 payload of a subframe; the word after the HOW follows a word
\* whose last parity bits were set
MID8GPS(ch, sv, id, iod, pg) ==
    [Msg(8, 43) EXCEPT !.ch = ch, !.sv = sv, !.nav = <<id, iod, pg>>,
        !.wd = [i \in 1..10 |-> GPSword(GPSsubframe(id, iod, pg)[i],
                                         IF i = 3 THEN 1 ELSE 0, IF i = 3 THEN 1 ELSE 0)]]

\* subframes 1, 2, 3 of PRN 5, a subframe 1 of its next issue of data, a
\* subframe 2 of PRN 7
GPSephMsgs ==
    {MID8GPS(c, 5, id, 10, 0) : c \in Channels, id \in 1..3}
    \cup {MID8GPS(c, 5, 1, 11, 0) : c \in Channels}
    \cup {MID8GPS(c, 7, 2, 10, 0) : c \in Channels}

\* subframe 4 page 18 (page id 56), another page of subframe 4, a subframe whose
\* second word arrives with its parity bits cleared, one whose last word
\* arrives with a data bit flipped, a payload cut after five words
GPSotherMsgs ==
    { MID8GPS(0, 7, 4, 0, 56),
      MID8GPS(0, 5, 4, 0, 57),
      [MID8GPS(0, 5, 1, 10, 0) EXCEPT !.wd[2] = U32(0, 4 * 64)],
      [MID8GPS(0, 5, 3, 10, 0) EXCEPT !.wd[10] = @ \cup {6}],
      [MID8GPS(0, 5, 2, 10, 0) EXCEPT !.len = 23] }

MID8GPSmsgs == GPSephMsgs \cup GPSotherMsgs

\* MID 8 the dispatcher drops before any handler: channel out of range,
\* satellite in neither range, payload ending before the satellite number
MID8dropped ==
    { [MID8GPS(0, 5, 1, 10, 0) EXCEPT !.ch = MAXCHANNELS],
      [MID8GPS(0, 5, 1, 10, 0) EXCEPT !.sv = 40],
      [MID8GPS(0, 5, 1, 10, 0) EXCEPT !.len = 2] }

\* getMID8GPSNavData up to the store: parity of the ten words, the data words,
\* the subframe and page identifiers
decodeMID8GPS_firstWordOnly(m) ==
    LET wd == [i \in 1..10 |-> dataBits(m.wd[i])]
    IN [parityOK |-> checkGPSparity(m.wd[1]),
        wd |-> wd,
        subfrmID |-> Val(And32(Shr(wd[2], 2), U32(0, 7)), 3),
        pgID |-> Val(And32(Shr(wd[3], 16), U32(0, 63)), 6)]
decodeMID8GPS(m) ==
    LET wd == [i \in 1..10 |-> dataBits(m.wd[i])]
    IN [parityOK |-> \A i \in 1..10 : checkGPSparity(m.wd[i]),
        wd |-> wd,
        subfrmID |-> Val(And32(Shr(wd[2], 2), U32(0, 7)), 3),
        pgID |-> Val(And32(Shr(wd[3], 16), U32(0, 63)), 6)]

\* the messages of the alphabet, each with what the handler decodes from it
MID8GPSdecoded == {[m |-> m, d |-> decodeMID8GPS(m)] : m \in MID8GPSmsgs}

\* what the words of a never written slot hold: setTblValues, called by the
\* constructor, zeroes the table
UnwrittenWords == {ZeroWords}

\* the memories the never written slots among 0..2 may stand for; their words
\* decide nothing unless the three satellite numbers agree
UnsetMemory(sf) ==
    IF sf[0].sv = sf[1].sv /\ sf[0].sv = sf[2].sv
    THEN {h \in [0..2 -> UnwrittenWords] : \A i \in 0..2 : sf[i].set => h[i] = ZeroWords}
    ELSE {[i \in 0..2 |-> ZeroWords]}

\* the masks 0xFF and 0xFFFF
LowByte == U32(0, 255)
LowHalf == U32(0, 65535)

\* the words of the slots 0..2 as the code reads them; g stands for the
\* memory of the slots never written
SlotWords(sf, g) == [i \in 0..2 |-> IF sf[i].set THEN sf[i].words ELSE g[i]]

\* GNSSdataFromOSP::allGPSEphemReceived on the slots sf of a channel
allGPSEphemReceived_wrongShift(sf, g) ==
    LET w == SlotWords(sf, g)
        iodcLSB == Val(And32(w[0][8], LowByte), 8)
    IN /\ sf[0].sv = sf[1].sv
       /\ sf[0].sv = sf[2].sv
       /\ iodcLSB = Val(And32(Shr(w[1][3], 16), LowByte), 8)
       /\ iodcLSB = Val(And32(Shr(w[2][10], 16), LowByte), 8)
allGPSEphemReceived(sf, g) ==
    LET w == SlotWords(sf, g)
        iodcLSB == Val(And32(Shr(w[0][8], 16), LowByte), 8)
    IN /\ sf[0].sv = sf[1].sv
       /\ sf[0].sv = sf[2].sv
       /\ iodcLSB = Val(And32(Shr(w[1][3], 16), LowByte), 8)
       /\ iodcLSB = Val(And32(Shr(w[2][10], 16), LowByte), 8)

\* getMID8GPSNavData: the slots packed as per MID 15, navW[0..44]
packNavW(sf, g, sv) ==
    LET w == SlotWords(sf, g) IN
    [k \in 0..44 |->
        LET i == k \div 15
            j == (k % 15) \div 3
            wA == w[i][(j * 2) + 1]
            wB == w[i][(j * 2) + 2]
            v == IF k % 3 = 0 THEN Val(And32(Shr(wA, 8), LowHalf), 16)
                 ELSE IF k % 3 = 1
                 THEN Val(Or32(Shl(And32(wA, LowByte), 8),
                               And32(Shr(wB, 16), LowByte)), 16)
                 ELSE Val(And32(wB, LowHalf), 16)
        IN IF k % 15 = 0 THEN sv ELSE IF k % 15 = 1 THEN v % 256 ELSE v]

\* GNSSdataFromOSP::extractGPSEphemeris (the checks, the satellite, week and
\* Toc mantissas) and scaleGPSEphemeris (the time tag)
extractGPSEphemeris(navW) ==
    LET sv == navW[0] % 256
        iodcLSB == navW[10] % 256
        iode1 == (navW[18] \div 256) % 256
        iode2 == navW[43] % 256
    IN [ok |-> /\ sv = navW[15] % 256 /\ sv = navW[30] % 256
               /\ iode1 = iode2 /\ iode1 = iodcLSB,
        sat |-> sv,
        iode |-> iode1,
        tTag |-> (((navW[3] \div 64) % 1024) + 1024) * 604800 + navW[11] * 16]

\* RinexData::saveNavData
saveNavData_lastOnly(nav, sys, sat, tTag, iod) ==
    IF nav # <<>> /\ nav[Len(nav)].systemId = sys /\ nav[Len(nav)].satellite = sat
                 /\ nav[Len(nav)].navTimeTag = tTag
    THEN nav
    ELSE Append(nav, [navTimeTag |-> tTag, systemId |-> sys, satellite |-> sat,
                      iod |-> iod])
saveNavData(nav, sys, sat, tTag, iod) ==
    IF \E k \in 1..Len(nav) :
          nav[k].systemId = sys /\ nav[k].satellite = sat /\ nav[k].navTimeTag = tTag
    THEN nav
    ELSE Append(nav, [navTimeTag |-> tTag, systemId |-> sys, satellite |-> sat,
                      iod |-> iod])

\* for (i < MAXSUBFR) subfrmCh[ch][i].sv = 0
clearStorage(sf) == [i \in 0..(MAXSUBFR - 1) |-> [sf[i] EXCEPT !.sv = 0]]

\* case 8, GPS satellite: getMID8GPSNavData
EpochMID8GPS ==
    /\ UNCHANGED <<ser, rdr, fn>>
    /\ pc = "epoch"
    /\ UseMID8G
    /\ \E x \in MID8GPSdecoded :
        LET m == x.m
            d == x.d
            wanted == (d.subfrmID > 0 /\ d.subfrmID < 4) \/ (d.subfrmID = 4 /\ d.pgID = 56)
            sf == [subfrmCh[m.ch] EXCEPT ![d.subfrmID - 1] =
                        [sv |-> m.sv, set |-> TRUE, words |-> d.wd]]
        IN
        /\ ReadsNav(m)
        /\ IF m.len >= 43 /\ d.parityOK /\ wanted
           THEN \E g \in UnsetMemory(sf) :
                  IF allGPSEphemReceived(sf, g)
                  THEN LET e == extractGPSEphemeris(packNavW(sf, g, m.sv)) IN
                       /\ epochNav' = IF e.ok
                                      THEN saveNavData(epochNav, "G", e.sat, e.tTag, e.iode)
                                      ELSE epochNav
                       /\ navFwd' = IF e.ok THEN [navFwd EXCEPT !.G = @ + 1] ELSE navFwd
                       /\ subfrmCh' = [subfrmCh EXCEPT ![m.ch] = clearStorage(sf)]
                  ELSE /\ subfrmCh' = [subfrmCh EXCEPT ![m.ch] = sf]
                       /\ UNCHANGED <<epochNav, navFwd>>
           ELSE UNCHANGED <<subfrmCh, epochNav, navFwd>>
        /\ navIn' = LET h == Append(navIn, [msg |-> m, fwd |-> navFwd])
                     IN IF Len(h) > 3 THEN Tail(h) ELSE h
    /\ UNCHANGED <<pc, applyBias, epochGPSweek, epochGPStow, epochClkBias, hdrFlags,
                   chSatObs, satGLOslt, version, systemId, systems, applyObsFilter,
                   applyNavFilter, selectedSats, epochObs, epochTimeTag, rnxEpoch,
                   hdData, opCount, obsOut, navOut, mid7Lost, lastFilter, obsIn>>

\* case 8 ending in the dispatcher: "channel not in range", "satellite number
\* out of GPS, GLONASS ranges", or get() throwing inside the try block
EpochMID8Dropped ==
    /\ UNCHANGED <<ser, rdr, fn>>
    /\ pc = "epoch"
    /\ UseMID8G \/ UseMID8R
    /\ \E m \in MID8dropped :
        /\ ReadsNav(m)
    /\ UNCHANGED <<pc, navIn, applyBias, epochGPSweek, epochGPStow, epochClkBias, hdrFlags,
                   chSatObs, subfrmCh, satGLOslt, rnx, out>>

\* generateRINEX after acqHeaderData met no header message in the file
InitNav ==
    /\ InitOSP
    /\ applyBias = TRUE
    /\ pc = "epoch"

\* the GPS navigation pipeline of OSPtoRINEX
NextGPSNav == EpochMID8GPS \/ EpochMID8Dropped

SpecGPSNav == InitNav /\ [][NextGPSNav]_vars

(***************************************************************************)
(* MID 8: 50 bps navigation data, GLONASS                                  *)
(***************************************************************************)
\* GNSSdataFromOSP::getGLOstring: the 84 bits of the string packed in three
\* words, and the string number
getGLOstring_wrongMask(ospW) ==
    LET stringW == <<
            Or32(Shl(And32(ospW[3], U32(63, 65535)), 10),
                 Shr(And32(ospW[4], U32(511, 32768)), 15)),
            Or32(Or32(Shl(And32(ospW[1], U32(0, 15)), 28),
                      Shl(And32(ospW[2], U32(511, 65535)), 3)),
                 Shr(And32(ospW[3], U32(448, 0)), 22)),
            Shr(And32(ospW[1], U32(239, 65520)), 4) >>
    IN [stringW |-> stringW, strNum |-> getBits(stringW, 80, 4)]
getGLOstring(ospW) ==
    LET stringW == <<
            Or32(Shl(And32(ospW[3], U32(63, 65535)), 10),
                 Shr(And32(ospW[4], U32(511, 32768)), 15)),
            Or32(Or32(Shl(And32(ospW[1], U32(0, 15)), 28),
                      Shl(And32(ospW[2], U32(511, 65535)), 3)),
                 Shr(And32(ospW[3], U32(448, 0)), 22)),
            Shr(And32(ospW[1], U32(255, 65520)), 4) >>
    IN [stringW |-> stringW, strNum |-> getBits(stringW, 80, 4)]

\* days of the months before month m, in a year that is not a leap year
DaysBefore == <<0, 31, 59, 90, 120, 151, 181, 212, 243, 273, 304, 334>>

\* getSecsGPSEphe(year, month, day, hour, min, sec): seconds from 6/1/1980 to
\* the date, for dates from 1980 to 2099; mktime takes a day number beyond
\* the month's end as days of the following months (both dates are
\* converted in the same time zone; daylight saving time is left out)
getSecsGPSEpheDate(year, month, day, hour, min, sec) ==
    LET leapDays == ((year - 1980) + 3) \div 4
        leapNow == IF year % 4 = 0 /\ month > 2 THEN 1 ELSE 0
        days == (365 * (year - 1980)) + leapDays + DaysBefore[month] + leapNow
                + (day - 1) - 5
    IN (days * 86400) + (hour * 3600) + (min * 60) + sec

\* a GLONASS string as MID 8 carries it: the string number in bits 20..23 of
\* word 0 and tb (string 2) in its bits 9..15; in word 2 the slot number n
\* (string 4) in bits 0..4, the day NT (string 4) in bits 5..15 and N4
\* (string 5) from bit 21 on
MID8GLO(ch, sv, strNum, n) ==
    [Msg(8, 43) EXCEPT !.ch = ch, !.sv = sv, !.nav = <<strNum, n, 0>>,
        !.wd = [i \in 1..10 |->
                  IF i = 1 THEN U32(strNum * 16, IF strNum = 2 THEN 4 * 512 ELSE 0)
                  ELSE IF i = 3 /\ strNum = 4 THEN U32(0, n + (32 * 1))
                  ELSE IF i = 3 /\ strNum = 5 THEN U32(5 * 32, 0)
                  ELSE ZeroW]]

\* strings 1 to 5 of the satellite in slot 3 (receiver number 70), strings 4
\* and 5 of the satellite in slot 4 (number 71), a string 4 with the slot
\* number 0, a string 4 of the satellite in slot 20 (number 71), a string 6,
\* a payload cut after five words
MID8GLOmsgs ==
    {MID8GLO(c, 70, k, 3) : c \in Channels, k \in 1..5}
    \cup {MID8GLO(0, 71, k, 4) : k \in 4..5}
    \cup { MID8GLO(0, 70, 4, 0),
           MID8GLO(0, 71, 4, 20),
           MID8GLO(0, 70, 6, 0),
           [MID8GLO(0, 70, 1, 3) EXCEPT !.len = 23] }

\* getMID8GLONavData up to the store; a payload that ends before the ten
\* words makes getGLOstring return 0
decodeMID8GLO(m) ==
    LET g == getGLOstring(m.wd)
    IN [strNum |-> IF m.len >= 43 THEN g.strNum ELSE 0,
        words |-> [i \in 1..10 |-> IF i <= 3 THEN g.stringW[i] ELSE ZeroW]]

\* the messages of the alphabet, each with what the handler decodes from it
MID8GLOdecoded == {[m |-> m, d |-> decodeMID8GLO(m)] : m \in MID8GLOmsgs}

\* GNSSdataFromOSP::allGLOEphemReceived on the slots sf of a channel
allGLOEphemReceived(sf) ==
    \A i \in 0..(MAXSUBFR - 1) : sf[i].sv # 0

\* GNSSdataFromOSP::extractGLOEphemeris: the slot number and the time tag
extractGLOEphemeris(sf) ==
    LET sv == getBits(sf[3].words, 10, 5)
        n4 == getBits(sf[4].words, 31, 5)
        nt == getBits(sf[3].words, 15, 11)
        tb == getBits(sf[1].words, 69, 7) * (15 * 60)
    IN [ok |-> ~(sv = 0 \/ sv > MAXGLOSATS),
        sat |-> sv,
        tTag |-> getSecsGPSEpheDate(1996 + ((n4 - 1) * 4), 1, nt, 0, 0, tb) - (3 * 60 * 60)]

\* case 8, GLONASS satellite: getMID8GLONavData
EpochMID8GLO ==
    /\ UNCHANGED <<ser, rdr, fn>>
    /\ pc = "epoch"
    /\ UseMID8R
    /\ \E x \in MID8GLOdecoded :
        LET m == x.m
            d == x.d
            sltNum == getBits(d.words, 10, 5)
            svx == m.sv - FIRSTGLOSAT
            sf == [subfrmCh[m.ch] EXCEPT ![d.strNum - 1] =
                        [sv |-> m.sv, set |-> TRUE, words |-> d.words]]
        IN
        /\ ReadsGLO(m)
        /\ IF d.strNum > 0 /\ d.strNum <= MAXSUBFR
           THEN /\ satGLOslt' =
                     IF d.strNum = 4 /\ sltNum >= 0 /\ sltNum <= MAXGLOSATS
                        /\ satGLOslt[svx].slot # sltNum
                     THEN [satGLOslt EXCEPT ![svx] = [rcvCh |-> m.ch, slot |-> sltNum]]
                     ELSE satGLOslt
                /\ IF allGLOEphemReceived(sf)
                   THEN LET e == extractGLOEphemeris(sf) IN
                        /\ epochNav' = IF e.ok
                                       THEN saveNavData(epochNav, "R", e.sat, e.tTag, 0)
                                       ELSE epochNav
                        /\ navFwd' = IF e.ok THEN [navFwd EXCEPT !.R = @ + 1] ELSE navFwd
                        /\ subfrmCh' = [subfrmCh EXCEPT ![m.ch] = clearStorage(sf)]
                   ELSE /\ subfrmCh' = [subfrmCh EXCEPT ![m.ch] = sf]
                        /\ UNCHANGED <<epochNav, navFwd>>
           ELSE UNCHANGED <<subfrmCh, satGLOslt, epochNav, navFwd>>
    /\ UNCHANGED <<pc, navIn, applyBias, epochGPSweek, epochGPStow, epochClkBias, hdrFlags,
                   chSatObs, version, systemId, systems, applyObsFilter,
                   applyNavFilter, selectedSats, epochObs, epochTimeTag, rnxEpoch,
                   hdData, opCount, obsOut, navOut, mid7Lost, lastFilter, obsIn>>

\* the GLONASS navigation pipeline of OSPtoRINEX
NextGLONav == EpochMID8GLO \/ EpochMID8Dropped

SpecGLONav == InitNav /\ [][NextGLONav]_vars

\* acqGLOparams, one turn of its loop on a MID 8 of a GLONASS satellite: the
\* slot number of a string 4 is stored if the entry of the satellite is empty
AcqGLOparamsMID8 ==
    /\ UNCHANGED <<ser, rdr, fn>>
    /\ pc = "gloparams"
    /\ \E x \in MID8GLOdecoded :
        LET m == x.m
            n == getBits(x.d.words, 10, 5)
            sat == m.sv - FIRSTGLOSAT
        IN
        /\ m.len >= 43
        /\ Fill(m, MaxParamMsgs)
        /\ satGLOslt' =
              IF x.d.strNum = 4 /\ satGLOslt[sat].slot = 0
              THEN [satGLOslt EXCEPT ![sat] = [rcvCh |-> m.ch, slot |-> n]]
              ELSE satGLOslt
    /\ UNCHANGED <<pc, navIn, applyBias, epochGPSweek, epochGPStow, epochClkBias, hdrFlags,
                   chSatObs, subfrmCh, rnx, out>>

\* acqGLOparams returns, at the end of the file or when a payload ends before
\* the words of the string (the exception is caught outside the loop);
\* OSPtoRINEX rewinds the file for acqEpochData
AcqGLOparamsEnd ==
    /\ UNCHANGED <<ser, rdr, fn>>
    /\ pc = "gloparams"
    /\ \/ UNCHANGED message
       \/ \E m \in MID8GLOmsgs : m.len < 43 /\ fill(m.len, m.len) /\ message' = m
    /\ msgCount' = 0
    /\ pc' = "epoch"
    /\ UNCHANGED <<navIn, applyBias, epochGPSweek, epochGPStow, epochClkBias, hdrFlags,
                   chSatObs, subfrmCh, satGLOslt, rnx, out>>

\* OSPtoRINEX -c after acqHeaderData, with GLONASS among the systems selected
\* (acqGLOparams is called) or not
InitGLOSlots ==
    /\ InitOSP
    /\ applyBias = TRUE
    /\ pc \in {"gloparams", "epoch"}

NextGLOSlots == AcqGLOparamsMID8 \/ AcqGLOparamsEnd \/ EpochMID8GLO \/ EpochMID8Dropped

SpecGLOSlots == InitGLOSlots /\ [][NextGLOSlots]_vars

(***************************************************************************)
(* RinexData as its callers use it: a header with two systems, setFilter,  *)
(* observations saved and printed, navigation records read and printed     *)
(***************************************************************************)
\* the systems and observables of the header read: G and R, C1C and L1C
DeclaredSystems ==
    <<GNSSsystem("G", <<"C1C", "L1C">>), GNSSsystem("R", <<"C1C", "L1C">>)>>

\* lists of the options -s and -o
SelSatArgs == { <<>>, << <<"G", "0", "5">> >>, << <<"R">> >> }
SelObsArgs == { <<>>, <<[sys |-> "G", obs |-> "C1C"]>> }

\* the observations a caller saves, the satellites of the navigation records
\* read
ObsInput ==
    { [sys |-> "G", sat |-> 5, obs |-> "C1C"], [sys |-> "G", sat |-> 5, obs |-> "L1C"],
      [sys |-> "G", sat |-> 7, obs |-> "C1C"], [sys |-> "R", sat |-> 1, obs |-> "C1C"] }
NavInput == { [sys |-> "G", sat |-> 5], [sys |-> "G", sat |-> 7], [sys |-> "R", sat |-> 1] }

\* the value of a char
CharCode(c) == IF c = "G" THEN 71 ELSE IF c = "R" THEN 82 ELSE 32

\* SatNavData::operator<
NavBefore(a, b) ==
    IF a.navTimeTag > b.navTimeTag THEN FALSE
    ELSE IF a.navTimeTag < b.navTimeTag THEN TRUE
    ELSE IF CharCode(a.systemId) > CharCode(b.systemId) THEN FALSE
    ELSE IF CharCode(a.systemId) < CharCode(b.systemId) THEN TRUE
    ELSE ~(a.satellite > b.satellite)

\* sort(epochNav.begin(), epochNav.end())
RECURSIVE InsertNav(_, _)
InsertNav(x, s) ==
    IF s = <<>> THEN <<x>>
    ELSE IF NavBefore(x, Head(s)) THEN <<x>> \o s
    ELSE <<Head(s)>> \o InsertNav(x, Tail(s))
RECURSIVE SortNav(_)
SortNav(s) ==
    IF s = <<>> THEN <<>> ELSE InsertNav(Head(s), SortNav(Tail(s)))

\* RinexData::filterNavData
filterNavData(applyNav, selSats, nav) ==
    LET Keep(r) == \E k \in 1..Len(selSats) :
                       IsPrefix(selSats[k], SatToken(r.systemId, r.satellite))
    IN SortNav(IF applyNav THEN SelectSeq(nav, Keep) ELSE nav)

\* RinexData::printNavEpoch: its call of filterNavData is commented out; the
\* records written and the records left in epochNav
printNavEpoch(ver, sysId, nav) ==
    LET Printed(r) == ~(ver = "V210" /\ r.systemId # sysId)
        Left(r) == ~Printed(r)
    IN [printed |-> SelectSeq(SortNav(nav), Printed),
        left |-> SelectSeq(SortNav(nav), Left)]

\* RINEXtoRINEX main, step 9: rinex.setFilter(SELSAT tokens, SELOBS tokens)
SetFilter ==
    /\ UNCHANGED <<ser, rdr, fn>>
    /\ pc = "rinex"
    /\ opCount < MaxOps
    /\ \E a \in SelSatArgs, b \in SelObsArgs :
        LET f == setFilter(systems, a, b) IN
        /\ systems' = f.systems
        /\ applyObsFilter' = f.applyObs
        /\ applyNavFilter' = f.applyNav
        /\ selectedSats' = f.selectedSats
        /\ lastFilter' = [sat |-> a, obs |-> b]
    /\ opCount' = opCount + 1
    /\ UNCHANGED <<pc, msgCount, navIn, dec, version, systemId, epochObs, epochTimeTag,
                   epochNav, rnxEpoch, hdData, obsOut, navOut, navFwd, mid7Lost, obsIn>>

\* rinex.saveObsData(sys, sat, obsType, value, lol, strg, tTag)
SaveObsData ==
    /\ UNCHANGED <<ser, rdr, fn>>
    /\ pc = "rinex"
    /\ opCount < MaxOps
    /\ Len(epochObs) < MaxObs
    /\ \E r \in ObsInput :
        LET st == saveObsData(systems, [obs |-> epochObs, tag |-> epochTimeTag],
                              r.sys, r.sat, r.obs, 1) IN
        /\ epochObs' = st.obs
        /\ epochTimeTag' = st.tag
    /\ opCount' = opCount + 1
    /\ UNCHANGED <<pc, msgCount, navIn, dec, version, systemId, systems, applyObsFilter,
                   applyNavFilter, selectedSats, epochNav, rnxEpoch, hdData, out>>

\* RINEXtoRINEX main, step 10.2: rinex.printObsEpoch(outFile)
RnxPrintObsEpoch ==
    /\ UNCHANGED <<ser, rdr, fn>>
    /\ pc = "rinex"
    /\ opCount < MaxOps
    /\ obsOut' = printObsEpoch(systems, applyObsFilter, epochObs)
    /\ obsIn' = epochObs
    /\ epochObs' = <<>>
    /\ opCount' = opCount + 1
    /\ UNCHANGED <<pc, msgCount, navIn, dec, version, systemId, systems, applyObsFilter,
                   applyNavFilter, selectedSats, epochTimeTag, epochNav, rnxEpoch,
                   hdData, navOut, navFwd, mid7Lost, lastFilter>>

\* RinexData::readNavEpoch: the storage is cleared, one record is stored and
\* its time becomes the time of the epoch
ReadNavEpoch ==
    /\ UNCHANGED <<ser, rdr, fn>>
    /\ pc = "rinex"
    /\ opCount < MaxOps
    /\ \E r \in NavInput :
        epochNav' = <<[navTimeTag |-> 1, systemId |-> r.sys, satellite |-> r.sat,
                       iod |-> 0]>>
    /\ epochTimeTag' = 1
    /\ opCount' = opCount + 1
    /\ UNCHANGED <<pc, msgCount, navIn, dec, version, systemId, systems, applyObsFilter,
                   applyNavFilter, selectedSats, epochObs, rnxEpoch, hdData, out>>

\* RINEXtoRINEX main, step 11.2: rinex.printNavEpoch(outFile).  The loop goes on
\* with the iterator epochNav.erase(it) has invalidated: where the iterator is
\* a plain pointer it stands on the next record, where iterators are checked
\* the program is stopped after the first record
PrintNavEpoch ==
    /\ UNCHANGED <<ser, rdr, fn>>
    /\ pc = "rinex"
    /\ opCount < MaxOps
    /\ epochNav # <<>>
    /\ LET p == printNavEpoch(version, systemId, epochNav) IN
       \/ /\ navOut' = p.printed
          /\ epochNav' = p.left
          /\ pc' = pc
       \/ /\ p.printed # <<>>
          /\ navOut' = <<Head(p.printed)>>
          /\ epochNav' = Tail(p.printed) \o p.left
          /\ pc' = "abort"
    /\ opCount' = opCount + 1
    /\ UNCHANGED <<msgCount, navIn, dec, version, systemId, systems, applyObsFilter,
                   applyNavFilter, selectedSats, epochObs, epochTimeTag, rnxEpoch,
                   hdData, obsOut, navFwd, mid7Lost, lastFilter, obsIn>>

\* RinexData after readRinexHeader, before the filter option is applied
InitFilter ==
    /\ InitCommon
    /\ NoPort /\ NoFile /\ NoCall
    /\ applyBias = TRUE
    /\ pc = "rinex"
    /\ version = "V302" /\ systemId = "M"
    /\ systems = DeclaredSystems
    /\ applyObsFilter = FALSE /\ applyNavFilter = FALSE
    /\ selectedSats = <<>>
    /\ lastFilter = [sat |-> <<>>, obs |-> <<>>]

NextFilter ==
    SetFilter \/ SaveObsData \/ RnxPrintObsEpoch \/ ReadNavEpoch \/ PrintNavEpoch

SpecFilter == InitFilter /\ [][NextFilter]_vars

(***************************************************************************)
(* RinexData: the storage of navigation records and of observations, as any *)
(* caller of saveNavData, readNavEpoch, printNavEpoch, saveObsData and       *)
(* printObsEpoch uses it                                                     *)
(***************************************************************************)
\* the time tags a caller gives
TimeTags == {1, 2}

\* rinex.saveNavData(sys, sat, bo, tTag)
StoreSaveNavData ==
    /\ UNCHANGED <<ser, rdr, fn>>
    /\ pc = "rinex"
    /\ opCount < MaxOps
    /\ \E r \in NavInput, t \in TimeTags :
        /\ epochNav' = saveNavData(epochNav, r.sys, r.sat, t, 0)
        /\ navFwd' = IF r.sys = "G" THEN [navFwd EXCEPT !.G = @ + 1]
                                     ELSE [navFwd EXCEPT !.R = @ + 1]
    /\ opCount' = opCount + 1
    /\ UNCHANGED <<pc, msgCount, navIn, dec, version, systemId, systems, applyObsFilter,
                   applyNavFilter, selectedSats, epochObs, epochTimeTag, rnxEpoch,
                   hdData, obsOut, navOut, mid7Lost, lastFilter, obsIn>>

NextNavStore == StoreSaveNavData \/ ReadNavEpoch \/ PrintNavEpoch

SpecNavStore == InitFilter /\ [][NextNavStore]_vars

\* rinex.saveObsData(sys, sat, obsType, value, lol, strg, tTag)
StoreSaveObsData ==
    /\ UNCHANGED <<ser, rdr, fn>>
    /\ pc = "rinex"
    /\ opCount < MaxOps
    /\ Len(epochObs) < MaxObs
    /\ \E r \in ObsInput, t \in TimeTags :
        LET st == saveObsData(systems, [obs |-> epochObs, tag |-> epochTimeTag],
                              r.sys, r.sat, r.obs, t) IN
        /\ epochObs' = st.obs
        /\ epochTimeTag' = st.tag
    /\ opCount' = opCount + 1
    /\ UNCHANGED <<pc, msgCount, navIn, dec, version, systemId, systems, applyObsFilter,
                   applyNavFilter, selectedSats, epochNav, rnxEpoch, hdData, out>>

NextObsStore == StoreSaveObsData \/ RnxPrintObsEpoch

SpecObsStore == InitFilter /\ [][NextObsStore]_vars

(***************************************************************************)
(* The packet readers: SerialTxRx::readOSPmsg on a serial port, and         *)
(* synchOSPmsg / readOSPmsg of PacketToOSP on a file of packets             *)
(***************************************************************************)
START1 == 160
START2 == 162
END1 == 176
END2 == 179
MAXBUFFERSIZE == 2052

\* the checksum loop: computedCheck = buf[0]; then += buf[i], &= 0x7FFF
RECURSIVE computedCheck(_, _)
computedCheck(buf, n) ==
    IF n = 1 THEN buf[1] ELSE (computedCheck(buf, n - 1) + buf[n]) % 32768

\* a packet as the sender builds it: start sequence, length, payload,
\* checksum, end sequence
OSPpacket(payload) ==
    LET n == Len(payload)
        c == computedCheck(payload, n)
    IN <<START1, START2, n \div 256, n % 256>> \o payload
       \o <<c \div 256, c % 256, END1, END2>>

\* the switch of synchOSPmsg on one byte: the state it leaves and how many
\* times it runs patience--.  Case 1 has no break after its inner switch, so
\* from state 1 the inner switch of case 2 runs as well.
synchOSPmsgByte(state, inData) ==
    LET s1 == IF state = 1 /\ inData = START1 THEN 2 ELSE state
        d1 == IF state = 1 /\ inData # START1 /\ inData # START2 THEN 1 ELSE 0
    IN IF inData = START1 THEN [state |-> s1, dec |-> d1]
       ELSE IF inData = START2 THEN [state |-> 3, dec |-> d1]
       ELSE [state |-> 1, dec |-> d1 + 1]

\* readOSPmsg after the synchronisation.  avail: the bytes the source still
\* holds; ioErr: the read of the length reports an error; n2, np: the number
\* of bytes the read of the length and the read of payload and checksum give
readOSPmsg_checksumNotConsumed(avail, maxLen, ioErr, n2, np, oldLen, oldBuf) ==
    LET len == avail[1] * 256 + avail[2]
        buf == SubSeq(avail, 3, 2 + np)
    IN IF ioErr THEN [ret |-> 5, used |-> 0, payloadLen |-> oldLen, payBuff |-> oldBuf]
       ELSE IF n2 # 2
       THEN [ret |-> 4, used |-> n2, payloadLen |-> oldLen, payBuff |-> oldBuf]
       ELSE IF ~(len > 0 /\ len < maxLen)
       THEN [ret |-> 3, used |-> 2, payloadLen |-> len, payBuff |-> oldBuf]
       ELSE IF np # len + 2
       THEN [ret |-> 2, used |-> 2 + np, payloadLen |-> len, payBuff |-> buf]
       ELSE [ret |-> IF computedCheck(buf, len) # buf[len + 1] * 256 + buf[len + 2]
                     THEN 1 ELSE 0,
             used |-> 2 + len, payloadLen |-> len, payBuff |-> buf]
readOSPmsg(avail, maxLen, ioErr, n2, np, oldLen, oldBuf) ==
    LET len == avail[1] * 256 + avail[2]
        buf == SubSeq(avail, 3, 2 + np)
    IN IF ioErr THEN [ret |-> 5, used |-> 0, payloadLen |-> oldLen, payBuff |-> oldBuf]
       ELSE IF n2 # 2
       THEN [ret |-> 4, used |-> n2, payloadLen |-> oldLen, payBuff |-> oldBuf]
       ELSE IF ~(len > 0 /\ len < maxLen)
       THEN [ret |-> 3, used |-> 2, payloadLen |-> len, payBuff |-> oldBuf]
       ELSE IF np # len + 2
       THEN [ret |-> 2, used |-> 2 + np, payloadLen |-> len, payBuff |-> buf]
       ELSE [ret |-> IF computedCheck(buf, len) # buf[len + 1] * 256 + buf[len + 2]
                     THEN 1 ELSE 0,
             used |-> 2 + len + 2, payloadLen |-> len, payBuff |-> buf]

Min(a, b) == IF a < b THEN a ELSE b

\* what the source delivers: some bytes of noise, a first packet (as sent,
\* with one byte changed, or cut short), then nothing or a second packet
FirstPayload == <<2, 0, 1>>
SecondPayload == <<7>>
Noise == {<<>>, <<0>>, <<START2>>, <<START1, START1>>, <<0, START1>>}
PacketVariants ==
    LET pk == OSPpacket(FirstPayload) IN
    {[bytes |-> pk, kind |-> "good", bad |-> 0]}
    \cup {[bytes |-> [pk EXCEPT ![i] = (@ + 1) % 256], kind |-> "corrupt", bad |-> i] :
              i \in 1..Len(pk)}
    \cup {[bytes |-> SubSeq(pk, 1, n), kind |-> "cut", bad |-> n + 1] :
              n \in 1..(Len(pk) - 1)}
Inputs ==
    {[bytes |-> n \o v.bytes \o t, first |-> Len(n) + 1, last |-> Len(n) + Len(v.bytes),
      kind |-> v.kind, bad |-> v.bad] :
        n \in Noise, v \in PacketVariants, t \in {<<>>, OSPpacket(SecondPayload)}}

\* acquireBin / filterPkts: the next readOSPmsg (in PacketToOSP, the next
\* synchOSPmsg of the loop) begins
ReadOSPmsgCall ==
    /\ pc = "packets"
    /\ nRead < MaxReads
    /\ \E p \in 1..MaxPatience :
        /\ patience' = IF reader = "serial" THEN p ELSE 0
        /\ patience0' = IF reader = "serial" THEN p ELSE 0
    /\ nRead' = nRead + 1
    /\ synState' = 1
    /\ synBytes' = <<>> /\ synFails' = 0
    /\ rdRet' = 0 - 1
    /\ pc' = "synch"
    /\ UNCHANGED <<rdr, fn, msgCount, navIn, dec, rnx, out, reader, input, pos, payloadLen,
                   payBuff, syncPos>>

\* one turn of the loop of synchOSPmsg in which the read gives a byte
SynchByte ==
    /\ pc = "synch"
    /\ synState # 3 /\ (reader = "file" \/ patience > 0)
    /\ pos < Len(input.bytes)
    /\ LET inData == input.bytes[pos + 1]
           r == synchOSPmsgByte(synState, inData)
       IN /\ synState' = r.state
          /\ patience' = IF reader = "serial" THEN patience - r.dec ELSE patience
          /\ synBytes' = Append(synBytes, inData)
    /\ pos' = pos + 1
    /\ UNCHANGED <<rdr, fn, pc, msgCount, navIn, dec, rnx, out, reader, input, nRead, payloadLen,
                   payBuff, rdRet, patience0, synFails, syncPos>>

\* one turn of the loop in which the read gives no byte: on the port (a
\* timeout, at any moment) patience--; on the file (its end) synchOSPmsg
\* returns false and filterPkts leaves its loop
SynchNoByte ==
    /\ pc = "synch"
    /\ synState # 3
    /\ \/ /\ reader = "serial" /\ patience > 0
          /\ patience' = patience - 1
          /\ synFails' = synFails + 1
          /\ UNCHANGED pc
       \/ /\ reader = "file" /\ pos = Len(input.bytes)
          /\ pc' = "eof"
          /\ UNCHANGED <<patience, synFails>>
    /\ UNCHANGED <<rdr, fn, msgCount, navIn, dec, rnx, out, reader, input, pos, nRead, synState,
                   payloadLen, payBuff, rdRet, patience0, synBytes, syncPos>>

\* synchOSPmsg returns false with the patience used up: readOSPmsg returns 6
ReadOSPmsgLost ==
    /\ pc = "synch"
    /\ reader = "serial" /\ synState # 3 /\ patience <= 0
    /\ rdRet' = 6
    /\ pc' = "packets"
    /\ UNCHANGED <<rdr, fn, msgCount, navIn, dec, rnx, out, reader, input, pos, nRead, synState,
                   patience, payloadLen, payBuff, patience0, synBytes, synFails, syncPos>>

\* synchOSPmsg returns true: readOSPmsg reads length, payload and checksum.
\* A read of the port may give fewer bytes than asked for, or fail; a read
\* of the file gives what the file still holds.
ReadOSPmsgPacket ==
    /\ pc = "synch"
    /\ synState = 3
    /\ LET avail == SubSeq(input.bytes, pos + 1, Len(input.bytes))
           len == avail[1] * 256 + avail[2]
           most2 == Min(2, Len(avail))
           mostP == IF most2 = 2 THEN Min(len + 2, Len(avail) - 2) ELSE 0
           maxLen == IF reader = "serial" THEN MAXBUFFERSIZE - 1 - 2
                     ELSE MAXPAYLOADSIZE - 2
       IN \E ioErr \in IF reader = "serial" THEN BOOLEAN ELSE {FALSE} :
          \E n2 \in IF reader = "serial" THEN 0..most2 ELSE {most2} :
          \E np \in IF reader = "serial" THEN 0..mostP ELSE {mostP} :
             LET r == readOSPmsg(avail, maxLen, ioErr, n2, np,
                                 IF reader = "file" THEN 0 ELSE payloadLen, payBuff)
             IN /\ rdRet' = r.ret
                /\ pos' = pos + r.used
                /\ payloadLen' = r.payloadLen
                /\ payBuff' = r.payBuff
    /\ syncPos' = pos
    /\ pc' = "packets"
    /\ UNCHANGED <<rdr, fn, msgCount, navIn, dec, rnx, out, reader, input, nRead, synState,
                   patience, patience0, synBytes, synFails>>

InitPackets ==
    /\ InitCommon
    /\ applyBias = TRUE
    /\ version = "V302" /\ systemId = " "
    /\ systems = <<>>
    /\ applyObsFilter = FALSE /\ applyNavFilter = FALSE
    /\ selectedSats = <<>>
    /\ lastFilter = [sat |-> <<>>, obs |-> <<>>]
    /\ reader \in {"serial", "file"}
    /\ input \in Inputs
    /\ pos = 0 /\ nRead = 0
    /\ synState = 1 /\ patience = 0 /\ patience0 = 0
    /\ payloadLen = 0 /\ payBuff = <<>> /\ rdRet = 0 - 1
    /\ synBytes = <<>> /\ synFails = 0 /\ syncPos = 0
    /\ NoFile /\ NoCall
    /\ pc = "packets"

NextPackets ==
    ReadOSPmsgCall \/ SynchByte \/ SynchNoByte \/ ReadOSPmsgLost \/ ReadOSPmsgPacket

SpecPackets == InitPackets /\ [][NextPackets]_vars

(***************************************************************************)
(* RinexData::readRinexHeader on the lines of an input file                 *)
(***************************************************************************)
\* what readHdLineData answers for a line: the label of the line, NOLABEL
\* for a line without one, DONTMATCH for a label of the other version.  The
\* VERSION lines are those of a file type the program processes, so each of
\* them leaves the flag of VERSION set.
HdLabels == {"VERSION", "COMM", "SYS", "SATS", "PRNOBS", "EOH", "NOLABEL", "DONTMATCH"}

\* int maxErrors = 10
MAXHDERRORS == 10

\* the lines after the header: observation lines, which carry no label
DataLines == [i \in 1..MAXHDERRORS |-> "NOLABEL"]

\* the files read: a header of up to MaxHdLines lines, then the end of the
\* file or the observation lines
HdFiles ==
    {h \o d : h \in UNION {[1..n -> HdLabels] : n \in 0..MaxHdLines},
              d \in {<<>>, DataLines}}

\* the inner switch (lineOrder) of readRinexHeader for a line with a label
hdLineOrder(order, labelId) ==
    IF order = 0 THEN (IF labelId = "VERSION" THEN 1 ELSE 0)
    ELSE IF order = 1
    THEN (IF labelId = "SYS" THEN 2 ELSE IF labelId = "SATS" THEN 3
          ELSE IF labelId = "EOH" THEN 4 ELSE 1)
    ELSE IF order = 2
    THEN (IF labelId = "SATS" THEN 3 ELSE IF labelId = "EOH" THEN 4 ELSE 2)
    ELSE IF order = 3 THEN (IF labelId = "EOH" THEN 4 ELSE 3)
    ELSE order

\* the do-while loop of readRinexHeader from the line after the read-th one:
\* the label returned, the lines taken and the final lineOrder
RECURSIVE readRinexHeader(_, _, _, _)
readRinexHeader(lines, read, order, maxErrors) ==
    LET labelId == IF read < Len(lines) THEN lines[read + 1] ELSE "LASTONE"
        taken == IF read < Len(lines) THEN read + 1 ELSE read
        errs == IF labelId = "NOLABEL" THEN maxErrors - 1 ELSE maxErrors
        next == IF labelId \in {"NOLABEL", "DONTMATCH", "LASTONE"} THEN order
                ELSE hdLineOrder(order, labelId)
    IN IF errs > 0 /\ labelId # "LASTONE" /\ next # 4
       THEN readRinexHeader(lines, taken, next, errs)
       ELSE [ret |-> labelId, read |-> taken, lineOrder |-> next]

\* RINEXtoRINEX main, step 5: rinex.readRinexHeader(inFile)
ReadRinexHeader ==
    /\ pc = "rdheader"
    /\ LET r == readRinexHeader(hdInput, 0, 0, MAXHDERRORS) IN
       /\ hdRet' = r.ret
       /\ hdRead' = r.read
       /\ lineOrder' = r.lineOrder
    /\ pc' = "rinex"
    /\ UNCHANGED <<msgCount, navIn, dec, rnx, out, ser, fn, hdInput, epochLine,
                   satsInEpoch, epochRet>>

\* RINEXtoRINEX main with the input file open
InitHeader ==
    /\ InitCommon
    /\ NoPort /\ NoCall
    /\ applyBias = TRUE
    /\ version = "V302" /\ systemId = " "
    /\ systems = <<>>
    /\ applyObsFilter = FALSE /\ applyNavFilter = FALSE
    /\ selectedSats = <<>>
    /\ lastFilter = [sat |-> <<>>, obs |-> <<>>]
    /\ hdInput \in HdFiles
    /\ hdRead = 0 /\ lineOrder = 0 /\ hdRet = "none"
    /\ epochLine = [flag |-> 0, nSats |-> 0, wrongDate |-> FALSE]
    /\ satsInEpoch = 0 /\ epochRet = 0 - 1
    /\ pc = "rdheader"

NextHeader == ReadRinexHeader

SpecHeader == InitHeader /\ [][NextHeader]_vars

(***************************************************************************)
(* RinexData::setFilter with tokens the header does not know                *)
(***************************************************************************)
\* lists of the options -s and -o with systems (E) and observables (L5X)
\* that are not in the header
MixSatArgs == { <<>>, << <<"G", "0", "5">>, <<"E">> >>, << <<"E", "1">>, <<"R">> >> }
MixObsArgs ==
    { <<>>, <<[sys |-> "G", obs |-> "C1C"], [sys |-> "G", obs |-> "L5X"]>>,
      <<[sys |-> "E", obs |-> "C1C"], [sys |-> "G", obs |-> "L1C"]>> }

\* RINEXtoRINEX main, step 9: rinex.setFilter(SELSAT tokens, SELOBS tokens)
\* and its return value
SetFilterTokens ==
    /\ pc = "rinex"
    /\ opCount < MaxOps
    /\ \E a \in MixSatArgs, b \in MixObsArgs :
        LET f == setFilter(systems, a, b) IN
        /\ systems' = f.systems
        /\ applyObsFilter' = f.applyObs
        /\ applyNavFilter' = f.applyNav
        /\ selectedSats' = f.selectedSats
        /\ lastFilter' = [sat |-> a, obs |-> b]
        /\ fnIn' = <<a, b>>
        /\ fnOut' = <<f.ret>>
    /\ opCount' = opCount + 1
    /\ UNCHANGED <<pc, msgCount, navIn, dec, version, systemId, epochObs, epochTimeTag,
                   epochNav, rnxEpoch, hdData, obsOut, navOut, navFwd, mid7Lost, obsIn,
                   ser, rdr>>

NextSetFilter == SetFilterTokens \/ SaveObsData \/ RnxPrintObsEpoch

SpecSetFilter == InitFilter /\ [][NextSetFilter]_vars

(***************************************************************************)
(* RinexData::printObsHeader after the filter option                        *)
(***************************************************************************)
\* RinexData::nSysSel
nSysSel(sysv) == Cardinality({i \in 1..Len(sysv) : sysv[i].selSystem})

\* printObsHeader: systemId of the VERSION record
printObsHeader(sysv) == IF nSysSel(sysv) > 1 THEN "M" ELSE sysv[1].system

\* RINEXtoRINEX main, step 10.1: rinex.printObsHeader(outFile); it throws
\* when no system is selected
PrintObsHeader ==
    /\ pc = "rinex"
    /\ opCount < MaxOps
    /\ IF nSysSel(systems) = 0
       THEN pc' = "abort" /\ UNCHANGED systemId
       ELSE pc' = pc /\ systemId' = printObsHeader(systems)
    /\ opCount' = opCount + 1
    /\ UNCHANGED <<msgCount, navIn, dec, version, systems, applyObsFilter, applyNavFilter,
                   selectedSats, epochObs, epochTimeTag, epochNav, rnxEpoch, hdData, out,
                   ser, rdr, fn>>

NextObsHeader == SetFilter \/ PrintObsHeader

SpecObsHeader == InitFilter /\ [][NextObsHeader]_vars

(***************************************************************************)
(* RinexData::readObsEpoch on an epoch of a V2.10 observation file          *)
(***************************************************************************)
\* unsigned int sysInEpoch[64]; int prnInEpoch[64]
SATSINEPOCH == 64

\* the epoch lines read: the epoch flag (0: observations, 9: not a flag of
\* RINEX), the number of satellites declared, a date that cannot be read.
\* The satellites of the line are G01, G02, ...
EpochLines ==
    [flag : {0, 9}, nSats : 0..MaxDeclared, wrongDate : BOOLEAN]

\* readV2ObsEpoch: the value returned, the number of entries of sysInEpoch
\* and prnInEpoch written (entries 0 .. written - 1) and the observations
\* stored
readV2ObsEpoch(sysv, line) ==
    LET badEpoch == line.wrongDate \/ line.nSats > 64
        nObs == Len(sysv[1].obsType)
    IN IF line.flag \notin {0, 1, 6}
       THEN [ret |-> 8, written |-> 0, obs |-> <<>>]
       ELSE IF badEpoch
       THEN [ret |-> 4, written |-> line.nSats, obs |-> <<>>]
       ELSE [ret |-> 1, written |-> line.nSats,
             obs |-> [n \in 1..(line.nSats * nObs) |->
                         [obsTimeTag |-> 1, sysIndex |-> 1,
                          satellite |-> ((n - 1) \div nObs) + 1,
                          obsTypeIndex |-> ((n - 1) % nObs) + 1]]]

\* RINEXtoRINEX main, step 10: rinex.readObsEpoch(inFile).  Entries written
\* past the end of the two arrays are written over what follows them on the
\* stack: the call goes on and returns, or the program is stopped
ReadV2ObsEpoch ==
    /\ pc = "rdepoch"
    /\ LET r == readV2ObsEpoch(systems, epochLine) IN
       /\ satsInEpoch' = r.written
       /\ epochTimeTag' = IF epochLine.wrongDate THEN epochTimeTag ELSE 1
       /\ rnxEpoch' = IF epochLine.wrongDate THEN rnxEpoch
                      ELSE [rnxEpoch EXCEPT !.week = 1, !.tow = 1]
       /\ \/ /\ epochRet' = r.ret
             /\ epochObs' = r.obs
             /\ pc' = "rinex"
          \/ /\ r.written > SATSINEPOCH
             /\ epochRet' = epochRet
             /\ epochObs' = <<>>
             /\ pc' = "abort"
    /\ UNCHANGED <<msgCount, navIn, dec, version, systemId, systems, applyObsFilter,
                   applyNavFilter, selectedSats, epochNav, hdData, opCount, out, ser, fn,
                   hdInput, hdRead, lineOrder, hdRet, epochLine>>

\* RINEXtoRINEX main with the header of a V2.10 file read
InitEpochLine ==
    /\ InitCommon
    /\ NoPort /\ NoCall
    /\ applyBias = TRUE
    /\ version = "V210" /\ systemId = "G"
    /\ systems = DeclaredSystems
    /\ applyObsFilter = FALSE /\ applyNavFilter = FALSE
    /\ selectedSats = <<>>
    /\ lastFilter = [sat |-> <<>>, obs |-> <<>>]
    /\ hdInput = <<>> /\ hdRead = 0 /\ lineOrder = 0 /\ hdRet = "none"
    /\ epochLine \in EpochLines
    /\ satsInEpoch = 0 /\ epochRet = 0 - 1
    /\ pc = "rdepoch"

NextEpochLine == ReadV2ObsEpoch

SpecEpochLine == InitEpochLine /\ [][NextEpochLine]_vars

(***************************************************************************)
(* Functions called on their own: the fit interval of scaleGPSEphemeris,    *)
(* getTwosComplement of Utilities, checkGPSparity                           *)
(***************************************************************************)
\* a RinexData object nothing was set in
NoRinex ==
    /\ applyBias = TRUE
    /\ version = "V302" /\ systemId = " "
    /\ systems = <<>>
    /\ applyObsFilter = FALSE /\ applyNavFilter = FALSE
    /\ selectedSats = <<>>
    /\ lastFilter = [sat |-> <<>>, obs |-> <<>>]

\* scaleGPSEphemeris, i == 7 && j == 1: the fit interval in hours from the
\* fit flag bom[7][1] and the IODC bom[6][3]
fitInterval_flagNotTested(fitFlag, iodc) ==
    IF iodc >= 240 /\ iodc <= 247 THEN 8
    ELSE IF iodc >= 248 /\ iodc <= 255 THEN 14
    ELSE IF iodc = 496 THEN 14
    ELSE IF iodc >= 497 /\ iodc <= 503 THEN 26
    ELSE IF iodc >= 1021 /\ iodc <= 1023 THEN 26
    ELSE 6
fitInterval(fitFlag, iodc) ==
    IF fitFlag = 0 THEN 4
    ELSE IF iodc >= 240 /\ iodc <= 247 THEN 8
    ELSE IF iodc >= 248 /\ iodc <= 255 THEN 14
    ELSE IF iodc = 496 THEN 14
    ELSE IF iodc >= 497 /\ iodc <= 503 THEN 26
    ELSE IF iodc >= 1021 /\ iodc <= 1023 THEN 26
    ELSE 6

\* the fit flag (one bit of word 10 of subframe 2) and the IODC (ten bits)
\* extractGPSEphemeris puts in bom
FitInputs == {<<f, c>> : f \in 0..1, c \in 0..1023}

\* scaleGPSEphemeris(bom, tTag, bo): bo[7][1]
ScaleGPSEphemeris ==
    /\ pc = "call"
    /\ fnOut' = <<fitInterval(fnIn[1], fnIn[2])>>
    /\ pc' = "done"
    /\ UNCHANGED <<msgCount, navIn, dec, rnx, out, ser, rdr, fnIn>>

InitFit ==
    /\ InitCommon
    /\ NoPort /\ NoFile /\ NoRinex
    /\ fnIn \in FitInputs
    /\ fnOut = <<>>
    /\ pc = "call"

NextFit == ScaleGPSEphemeris

SpecFit == InitFit /\ [][NextFit]_vars

\* Utilities: getTwosComplement(number, nbits).  An unsigned int is written
\* here as the int that has the same 32 bits, so that (int) number is number
\* and the unsigned comparison number < m, for m up to 2^30, is
\* 0 <= number < m; nbits is 32 or at most MaxWidth
getTwosComplement(number, nbits) ==
    IF nbits >= 32 THEN number
    ELSE IF number >= 0 /\ number < 2^(nbits - 1) THEN number
    ELSE number - 2^nbits

\* the bit fields converted: every value of every width up to MaxWidth, and
\* words of 32 bits
WidenInputs ==
    {p \in (0..(2^MaxWidth - 1)) \X (1..MaxWidth) : p[1] < 2^p[2]}
    \cup {<<0, 32>>, <<2147483647, 32>>, <<0 - 1, 32>>}

\* value = getTwosComplement(number, nbits)
GetTwosComplement ==
    /\ pc = "call"
    /\ fnOut' = <<getTwosComplement(fnIn[1], fnIn[2])>>
    /\ pc' = "done"
    /\ UNCHANGED <<msgCount, navIn, dec, rnx, out, ser, rdr, fnIn>>

\* getTwosComplement(value, nbits): the value returned is converted again
GetTwosComplementAgain ==
    /\ pc = "done"
    /\ fnOut' = Append(fnOut, getTwosComplement(fnOut[1], fnIn[2]))
    /\ pc' = "twice"
    /\ UNCHANGED <<msgCount, navIn, dec, rnx, out, ser, rdr, fnIn>>

InitWiden ==
    /\ InitCommon
    /\ NoPort /\ NoFile /\ NoRinex
    /\ fnIn \in WidenInputs
    /\ fnOut = <<>>
    /\ pc = "call"

NextWiden == GetTwosComplement \/ GetTwosComplementAgain

SpecWiden == InitWiden /\ [][NextWiden]_vars

\* the 24 data bits of the words checked, the last two bits of the word
\* before them, and the place in the word of the data bit that is changed
\* (d1 is bit 29, d24 is bit 6)
ParityData == {ZeroW, U32(255, 65535), U32(194, 0), U32(170, 21845), U32(0, 1)}
ParityInputs ==
    {[word |-> GPSword(data, d29, d30), bit |-> k] :
        data \in ParityData, d29 \in 0..1, d30 \in 0..1, k \in 6..29}

\* d ^ (1 << k)
flipBit(d, k) == IF k \in d THEN d \ {k} ELSE d \cup {k}

\* checkGPSparity(word), then checkGPSparity of the word with one data bit
\* changed, and the parity computed for it
CheckGPSparity ==
    /\ pc = "call"
    /\ LET d == flipBit(fnIn.word, fnIn.bit) IN
       fnOut' = <<checkGPSparity(fnIn.word), checkGPSparity(d), GPSparity(d), d>>
    /\ pc' = "done"
    /\ UNCHANGED <<msgCount, navIn, dec, rnx, out, ser, rdr, fnIn>>

InitParity ==
    /\ InitCommon
    /\ NoPort /\ NoFile /\ NoRinex
    /\ fnIn \in ParityInputs
    /\ fnOut = <<>>
    /\ pc = "call"

NextParity == CheckGPSparity

SpecParity == InitParity /\ [][NextParity]_vars

(***************************************************************************)
(* Claims on the observation pipeline                                      *)
(***************************************************************************)
\* a MID 7 that can be read to its clock bias and reports enough satellites
AcceptedMID7(m) == m.mid = 7 /\ m.len >= 16 /\ m.sats >= MinSVSfix

\* a MID 28 that can be read to its end, names a satellite of a known range
\* and has its acquisition-complete bit set
StoredMID28(m) ==
    /\ m.mid = 28 /\ m.len >= 50 /\ m.sync % 2 = 1
    /\ \/ (m.sv >= 1 /\ m.sv <= 32)
       \/ (m.sv >= 70 /\ m.sv <= 83)
       \/ (m.sv >= 101 /\ m.sv <= 200)

\* acqEpochData has just taken one more message from the file
TakesMsg == pc = "epoch" /\ msgCount' = msgCount + 1

\* C1: acqEpochData returns a completed epoch exactly when the message it
\* processes is an accepted MID 7 (satellite count at or above the minimum)
\* and the channel-observation buffer is not empty; an accepted MID 7 met with
\* an empty buffer completes nothing; the buffer is empty whenever a completed
\* epoch is returned.
C1_EpochOnAcceptedMID7 ==
    [][ pc = "epoch" =>
          /\ (pc' = "print") <=> (TakesMsg /\ AcceptedMID7(message') /\ chSatObs # <<>>)
          /\ (pc' = "print" => chSatObs' = <<>>) ]_vars

C1_Witness ==
    /\ pc = "print" /\ message.mid = 7 /\ chSatObs = <<>> /\ Len(epochObs) = 8

\* C2: at every message boundary every buffered measurement carries the time
\* tag of the first buffered one, and the records of a saved or printed epoch
\* all carry one time tag.
C2_OneTimeTagPerEpoch ==
    /\ \A i \in 2..Len(chSatObs) : FEq(chSatObs[i].timeT, chSatObs[1].timeT)
    /\ \A i \in 1..Len(epochObs) : FEq(epochObs[i].obsTimeTag, epochObs[1].obsTimeTag)
    /\ \A i \in 1..Len(obsOut) : FEq(obsOut[i].obsTimeTag, obsOut[1].obsTimeTag)

C2_Witness ==
    /\ Len(obsOut) = 8 /\ mid7Lost > 0
    /\ obsOut[1].satellite # obsOut[8].satellite

\* C3, as stated: when a MID 28 arrives whose time tag differs from that of
\* the first buffered measurement, the buffered measurements are discarded
\* unprinted and the buffer holds exactly the new measurement.
C3_AnyMID28Replaces ==
    [][ (TakesMsg /\ message'.mid = 28 /\ chSatObs # <<>>
            /\ ~FEq(message'.tTag, chSatObs[1].timeT))
        => /\ Len(chSatObs') = 1
           /\ chSatObs'[1].timeT = message'.tTag
           /\ pc' = "epoch" /\ epochObs' = epochObs /\ obsOut' = obsOut ]_vars

\* C3, amended: when a MID 28 that is stored (read to its end, satellite in
\* range, acquisition complete) arrives with a time tag different from that of
\* the first buffered measurement, the buffered measurements are discarded
\* unprinted and the buffer holds exactly the new measurement.
C3_StoredMID28Replaces ==
    [][ (TakesMsg /\ StoredMID28(message') /\ chSatObs # <<>>
            /\ ~FEq(message'.tTag, chSatObs[1].timeT))
        => /\ Len(chSatObs') = 1
           /\ chSatObs'[1].timeT = message'.tTag
           /\ chSatObs'[1].system = (IF message'.sv <= 32 THEN "G" ELSE "R")
           /\ mid7Lost' = mid7Lost + 1
           /\ pc' = "epoch" /\ epochObs' = epochObs /\ obsOut' = obsOut ]_vars

C3_Witness ==
    /\ mid7Lost > 0 /\ message.mid = 28 /\ Len(chSatObs) = 1
    /\ chSatObs[1].timeT = message.tTag

\* C7: no message, an empty or cut payload included, makes acqHeaderData or
\* acqEpochData end by an uncaught exception.
C7_NoAbnormalTermination == pc # "abort"

(***************************************************************************)
(* Claims on the GPS navigation pipeline                                   *)
(***************************************************************************)
\* the slots of the channel as allGPSEphemReceived finds them: the state
\* before the step with the subframe just read stored
GPSslotsAtCheck ==
    LET m == message'
        d == decodeMID8GPS(m)
    IN [subfrmCh[m.ch] EXCEPT ![d.subfrmID - 1] =
            [sv |-> m.sv, set |-> TRUE, words |-> d.wd]]

\* subframes 1, 2, 3 present, of one PRN, IODC low byte = IODE = IODE
GPSslotsComplete(sf) ==
    /\ \A i \in 0..2 : sf[i].sv # 0 /\ sf[i].set
    /\ sf[0].sv = sf[1].sv /\ sf[0].sv = sf[2].sv
    /\ Val(Shr(sf[0].words[8], 16), 8) = Val(Shr(sf[1].words[3], 16), 8)
    /\ Val(Shr(sf[0].words[8], 16), 8) = Val(Shr(sf[2].words[10], 16), 8)

\* C4: a GPS ephemeris is forwarded from a channel only when its slots for
\* subframes 1, 2 and 3 are all non-empty, carry the same PRN, and the IODC low
\* byte of subframe 1 equals the IODE of subframes 2 and 3; in every other
\* slot state no ephemeris is forwarded.
C4_EphemerisOnlyWhenComplete ==
    [][navFwd'.G # navFwd.G => GPSslotsComplete(GPSslotsAtCheck)]_vars

\* the last three subframes handled are subframes 1, 2, 3 in some order,
\* received whole, of one PRN and one issue of data, on one channel
GPStriple ==
    /\ Len(navIn) = 3
    /\ {navIn[i].msg.nav[1] : i \in 1..3} = 1..3
    /\ \A i \in 1..3 :
          /\ navIn[i].msg.ch = navIn[3].msg.ch
          /\ navIn[i].msg.sv = navIn[3].msg.sv
          /\ navIn[i].msg.nav[2] = navIn[3].msg.nav[2]
          /\ navIn[i].msg \in GPSephMsgs

\* C5: subframes 1, 2 and 3 of one PRN with matching IODC/IODE, supplied on
\* one channel in any of the six orders, produce exactly one ephemeris
\* emission: whatever the channel held before, exactly one ephemeris is
\* forwarded while the three are read; when they are the first three messages
\* of the file, one navigation record is saved; fewer than three subframes
\* forward nothing.
C5_AnyOrderOneEmission ==
    /\ GPStriple => navFwd.G = navIn[1].fwd.G + 1
    /\ (GPStriple /\ msgCount = 3)
          => epochNav = <<[navTimeTag |-> (1800 * 604800) + 1600, systemId |-> "G",
                           satellite |-> navIn[3].msg.sv, iod |-> navIn[3].msg.nav[2]]>>
    /\ (Len(navIn) < 3 /\ \A i \in 1..Len(navIn) : navIn[i].msg \in GPSephMsgs)
          => navFwd.G = 0 /\ epochNav = <<>>

\* subframe 3 first, then 1, then 2: one record
C5_Witness ==
    /\ GPStriple
    /\ msgCount = 3
    /\ <<navIn[1].msg.nav[1], navIn[2].msg.nav[1], navIn[3].msg.nav[1]>> = <<3, 1, 2>>
    /\ navFwd.G = 1
    /\ Len(epochNav) = 1

(***************************************************************************)
(* Claims on the GLONASS navigation pipeline                               *)
(***************************************************************************)
\* the slots of the channel as allGLOEphemReceived finds them
GLOslotsAtCheck ==
    LET m == message'
        d == decodeMID8GLO(m)
    IN [subfrmCh[m.ch] EXCEPT ![d.strNum - 1] =
            [sv |-> m.sv, set |-> TRUE, words |-> d.words]]

\* C6: a GLONASS ephemeris is forwarded from a channel only when its slots for
\* strings 1 to 5 are all filled and all five were received for the same
\* satellite.
C6_EphemerisOnlyFromOneSatellite ==
    [][navFwd'.R # navFwd.R =>
          \A i \in 0..(MAXSUBFR - 1) :
              /\ GLOslotsAtCheck[i].sv # 0
              /\ GLOslotsAtCheck[i].sv = GLOslotsAtCheck[0].sv]_vars

(***************************************************************************)
(* Claims on the filter                                                    *)
(***************************************************************************)
InSeq(r, q) == \E k \in 1..Len(q) : q[k] = r
IsObs(r, sys, obs) ==
    /\ r.sysIndex = sysInx(DeclaredSystems, sys)
    /\ r.obsTypeIndex = obsInx(DeclaredSystems, r.sysIndex, obs)

\* the last setFilter call was setFilter([], ["GC1C"])
AfterGC1C == lastFilter = [sat |-> <<>>, obs |-> <<[sys |-> "G", obs |-> "C1C"]>>]

\* a step of printObsEpoch on an epoch with data
ObsEpochWritten == epochObs # <<>> /\ epochObs' = <<>> /\ obsIn' = epochObs

\* C8 as stated: after set_filter([], ["GC1C"]) a V3.02 observation write
\* emits the records of system R and drops the records of system G with
\* observable L1C.
C8_RecordsOfREmitted ==
    [][(AfterGC1C /\ ObsEpochWritten) =>
          \A k \in 1..Len(epochObs) :
              /\ epochObs[k].sysIndex = sysInx(DeclaredSystems, "R")
                    => InSeq(epochObs[k], obsOut')
              /\ IsObs(epochObs[k], "G", "L1C") => ~InSeq(epochObs[k], obsOut')]_vars

\* C8 amended: after set_filter([], ["GC1C"]) a V3.02 observation write drops
\* the records of system R and the records of system G with observable L1C;
\* what it emits are the records of system G with observable C1C (of the
\* satellites selected, if satellites are).
C8_OnlyGC1CEmitted ==
    [][(AfterGC1C /\ ObsEpochWritten) =>
          /\ \A k \in 1..Len(epochObs) :
                /\ epochObs[k].sysIndex = sysInx(DeclaredSystems, "R")
                      => ~InSeq(epochObs[k], obsOut')
                /\ IsObs(epochObs[k], "G", "L1C") => ~InSeq(epochObs[k], obsOut')
                /\ (IsObs(epochObs[k], "G", "C1C")
                    /\ isSatSelected(systems, epochObs[k].sysIndex, epochObs[k].satellite))
                      => InSeq(epochObs[k], obsOut')
          /\ \A k \in 1..Len(obsOut') :
                IsObs(obsOut'[k], "G", "C1C") /\ InSeq(obsOut'[k], epochObs)]_vars

\* an epoch with R01 C1C, G05 L1C and G05 C1C written after the filter was
\* set: G05 C1C alone is emitted
C8_Witness ==
    /\ AfterGC1C
    /\ opCount = 5
    /\ Len(obsIn) = 3
    /\ \E k \in 1..3 : IsObs(obsIn[k], "R", "C1C")
    /\ \E k \in 1..3 : IsObs(obsIn[k], "G", "L1C")
    /\ \E k \in 1..3 : IsObs(obsIn[k], "G", "C1C")
    /\ Len(obsOut) = 1
    /\ IsObs(obsOut[1], "G", "C1C")

\* setFilter with the lists of the last call on an object no filter was set on
FreshFilter == setFilter(DeclaredSystems, lastFilter.sat, lastFilter.obs)

ObsRecord(r) ==
    [obsTimeTag |-> 1, sysIndex |-> sysInx(DeclaredSystems, r.sys), satellite |-> r.sat,
     obsTypeIndex |-> obsInx(DeclaredSystems, sysInx(DeclaredSystems, r.sys), r.obs)]
NavRecord(r) == [navTimeTag |-> 1, systemId |-> r.sys, satellite |-> r.sat, iod |-> 0]

\* C9: every setFilter call resets all filtering data and stores only the
\* values of that call: after any sequence of calls the observation and the
\* navigation filter treat every record as they would after the last call
\* alone (accept everything after a call with two empty lists).
C9_SetFilterResets ==
    /\ \A r \in ObsInput :
          filterObsData(systems, applyObsFilter, <<ObsRecord(r)>>)
              = filterObsData(FreshFilter.systems, FreshFilter.applyObs, <<ObsRecord(r)>>)
    /\ \A r \in NavInput :
          filterNavData(applyNavFilter, selectedSats, <<NavRecord(r)>>)
              = filterNavData(FreshFilter.applyNav, FreshFilter.selectedSats, <<NavRecord(r)>>)

\* C10: once a system/satellite selection is set, a navigation write emits
\* only records whose system-and-PRN token has an entry of the selected list
\* as a prefix.
C10_NavWriteFiltered ==
    [][(applyNavFilter /\ epochNav # <<>> /\ epochNav' = <<>>) =>
          \A k \in 1..Len(navOut') :
              \E t \in 1..Len(selectedSats) :
                  IsPrefix(selectedSats[t],
                           SatToken(navOut'[k].systemId, navOut'[k].satellite))]_vars

(***************************************************************************)
(* Claims on fixes with too few satellites                                 *)
(***************************************************************************)
\* the step handles a MID 7 or a MID 2 that carries its satellite count, and
\* the count is below minSVSfix
FewSatsFix ==
    /\ msgCount' = msgCount + 1
    /\ \/ message'.mid = 7 /\ message'.len >= 8
       \/ message'.mid = 2 /\ message'.len >= 29
    /\ message'.sats < MinSVSfix

\* C11: a MID 7 or MID 2 whose satellite count is below the configured
\* minimum closes no epoch and records no epoch time, time of first
\* observation, position or observation interval in the RinexData object.
C11_FewSatsRecordNothing ==
    [][FewSatsFix => pc' = pc /\ rnxEpoch' = rnxEpoch /\ hdData' = hdData]_vars

(***************************************************************************)
(* Claims on the parity of GPS MID 8 messages                              *)
(***************************************************************************)
\* the messages with a word, read in full, whose six parity bits are not the
\* ones computed from its data bits
GPSbadParity ==
    {m \in MID8GPSmsgs : m.len >= 43 /\ \E i \in 1..10 : ~checkGPSparity(m.wd[i])}

\* C12: a GPS MID 8 message in which a word fails the parity check changes no
\* subframe slot of any channel and forwards no navigation record.
C12_BadParityDropped ==
    [][(msgCount' = msgCount + 1 /\ message' \in GPSbadParity)
          => subfrmCh' = subfrmCh /\ epochNav' = epochNav /\ navFwd' = navFwd]_vars

\* subframes 1 and 2 of a satellite are stored, its subframe 3 has just come
\* with a flipped bit in its last word: nothing is forwarded
C12_Witness ==
    /\ message \in GPSbadParity
    /\ message.nav = <<3, 10, 0>>
    /\ Len(navIn) = 3
    /\ {navIn[1].msg.nav[1], navIn[2].msg.nav[1]} = {1, 2}
    /\ navIn[1].msg \in GPSephMsgs /\ navIn[2].msg \in GPSephMsgs
    /\ navIn[1].msg.sv = 5 /\ navIn[2].msg.sv = 5
    /\ navIn[1].msg.nav[2] = 10 /\ navIn[2].msg.nav[2] = 10
    /\ navIn[1].msg.ch = 0 /\ navIn[2].msg.ch = 0
    /\ navIn[3].msg = message
    /\ msgCount = 3
    /\ subfrmCh[0][0].set /\ subfrmCh[0][1].set /\ ~subfrmCh[0][2].set
    /\ navFwd.G = 0 /\ epochNav = <<>>

(***************************************************************************)
(* Claims on the packet readers                                             *)
(***************************************************************************)
\* the last two bytes synchOSPmsg took are the start sequence
EndsWithStart ==
    /\ Len(synBytes) >= 2
    /\ synBytes[Len(synBytes) - 1] = START1
    /\ synBytes[Len(synBytes)] = START2

\* C13: the synchronisation automaton reports that it is synchronised only
\* when the last two bytes it consumed are A0 followed by A2.
C13_SyncOnlyAfterStartSequence == synState = 3 => EndsWithStart

\* bytes synchOSPmsg has taken and thrown away: all of them but an A0 it
\* holds as the possible begin of a start sequence
SkippedBytes == Len(synBytes) - (IF synState = 2 THEN 1 ELSE 0)

\* C14: synchOSPmsg gives up once the skipped bytes plus the failed reads
\* reach the patience; while it looks for the start sequence it has never
\* skipped more than that.
C14_NeverSkipsMoreThanPatience ==
    (reader = "serial" /\ pc = "synch" /\ synState # 3)
        => SkippedBytes + synFails <= patience0

\* synchOSPmsg takes a byte that is neither A0 nor A2
SkipsOneByte ==
    /\ reader = "serial"
    /\ Len(synBytes') = Len(synBytes) + 1
    /\ synBytes'[Len(synBytes')] \notin {START1, START2}

\* C15: the states "waiting for A0" and "waiting for A2" are separate, so a
\* single skipped byte lowers the patience by exactly one.
C15_SkippedByteCostsOne == [][SkipsOneByte => patience' = patience - 1]_vars

\* the read that has just returned found its start sequence inside the
\* first packet of the input
ReadFirstPacket == syncPos >= input.first /\ syncPos <= input.last

\* C16: a framed packet that is cut short or has a byte changed is never
\* returned as a good packet (return value 0).
C16_DamagedPacketNeverOk ==
    ~(rdRet = 0 /\ input.kind # "good" /\ ReadFirstPacket)

\* the read found the start sequence of the first packet where it was sent
SynchedOnFirstPacket == syncPos = input.first + 1

\* the first packet has a byte of its payload or checksum changed
DamagedInside ==
    /\ input.kind = "corrupt"
    /\ input.bad > 4
    /\ input.first + input.bad - 1 <= input.last - 2

C18_DeliveredLengthInRange ==
    [][msgCount' = msgCount + 1
          => message'.len >= 1 /\ message'.len <= MAXPAYLOADSIZE]_vars

(***************************************************************************)
(* Claims on the table of GLONASS slot numbers                              *)
(***************************************************************************)
\* a MID 8 with a whole string 4 of a GLONASS satellite is processed, by
\* acqGLOparams or by getMID8GLONavData
String4Processed ==
    /\ msgCount' = msgCount + 1
    /\ message' \in MID8GLOmsgs
    /\ message'.len >= 43
    /\ message'.nav[1] = 4

\* the slot number n the string of the message carries
SlotInString == message'.nav[2]

\* C19: after a string 4 carrying the slot number n has been processed for
\* the receiver satellite number s, the table entry of s holds n.
C19_String4InstallsSlot ==
    [][String4Processed
          => satGLOslt'[message'.sv - FIRSTGLOSAT].slot = SlotInString]_vars

C21_NoTwoNavRecordsWithOneKey ==
    \A i, j \in 1..Len(epochNav) :
        (/\ epochNav[i].navTimeTag = epochNav[j].navTimeTag
         /\ epochNav[i].systemId = epochNav[j].systemId
         /\ epochNav[i].satellite = epochNav[j].satellite) => i = j

\* three records of system G were given to saveNavData, one more than the
\* two that are stored: the one with the key of a stored record was refused
C21_Witness ==
    /\ opCount = 3 /\ navFwd.G = 3
    /\ Len(epochNav) = 2
    /\ epochNav[1].satellite = 5 /\ epochNav[2].satellite = 5
    /\ epochNav[1].navTimeTag = 2 /\ epochNav[2].navTimeTag = 1

\* C22: after any sequence of saveObsData calls, all the observations in the
\* storage have one time tag, the one of the first observation saved since
\* the storage was empty (kept in epochTimeTag).
C22_OneTimeTagInStore ==
    \A k \in 1..Len(epochObs) :
        /\ epochObs[k].obsTimeTag = epochObs[1].obsTimeTag
        /\ epochObs[k].obsTimeTag = epochTimeTag

\* two observations with the time tag 2 are stored after three calls, one of
\* which stored nothing
C22_Witness ==
    /\ opCount = 3
    /\ Len(epochObs) = 2
    /\ epochTimeTag = 2
    /\ epochObs[1].satellite = 7 /\ epochObs[2].satellite = 5

\* a written observation is before another one in the order of system,
\* satellite and observable
TripleBefore(a, b) ==
    \/ a.sysIndex < b.sysIndex
    \/ /\ a.sysIndex = b.sysIndex
       /\ \/ a.satellite < b.satellite
          \/ /\ a.satellite = b.satellite
             /\ a.obsTypeIndex < b.obsTypeIndex

FirstEOH ==
    IF \E k \in 1..Len(hdInput) : hdInput[k] = "EOH"
    THEN CHOOSE k \in 1..Len(hdInput) :
             hdInput[k] = "EOH" /\ \A j \in 1..(k - 1) : hdInput[j] # "EOH"
    ELSE 0

\* C24: readRinexHeader ends at the first END OF HEADER line of the file,
\* whatever records came before it: it returns EOH and has taken no line
\* after that one.
C24_EndsAtFirstEndOfHeader ==
    (hdRet # "none" /\ FirstEOH > 0) => (hdRet = "EOH" /\ hdRead = FirstEOH)

\* C29: readV2ObsEpoch writes no entry of its satellite arrays beyond their
\* 64 entries, whatever number of satellites the epoch line declares, and
\* an epoch that declares more than 64 is rejected as a bad epoch (value 4)
\* with nothing stored.
C29_NoEntryBeyondCapacity ==
    (pc # "rdepoch") =>
        /\ satsInEpoch <= SATSINEPOCH
        /\ epochLine.nSats > SATSINEPOCH => (epochRet = 4 /\ epochObs = <<>>)

\* the systems selected
SelectedSystems == {systems[i].system : i \in {k \in 1..Len(systems) : systems[k].selSystem}}

\* C30: when the observation header is written with exactly one system
\* selected, the system identifier of the VERSION record is the letter of
\* that system, whatever its place in the list of systems; it is 'M' only
\* when more than one system is selected.
C30_SystemIdOfSelectedSystem ==
    [][PrintObsHeader =>
          /\ Cardinality(SelectedSystems) = 1 => systemId' \in SelectedSystems
          /\ systemId' = "M" => Cardinality(SelectedSystems) > 1]_vars

(***************************************************************************)
(* Claims on setFilter with unknown tokens                                  *)
(***************************************************************************)
\* a token that names a system, or a system and an observable, of the header
KnownSatToken(t) == t[1] \in {"G", "R"}
KnownObsToken(t) == t.sys \in {"G", "R"} /\ t.obs \in {"C1C", "L1C"}
\* the lists hold a token the header knows and one it does not
MixedTokens(selSat, selObs) ==
    /\ \/ \E k \in 1..Len(selSat) : KnownSatToken(selSat[k])
       \/ \E k \in 1..Len(selObs) : KnownObsToken(selObs[k])
    /\ \/ \E k \in 1..Len(selSat) : ~KnownSatToken(selSat[k])
       \/ \E k \in 1..Len(selObs) : ~KnownObsToken(selObs[k])

\* C25: a setFilter call given known and unknown tokens returns false, and
\* it leaves the selection of systems, satellites and observables that the
\* same call with the known tokens alone would leave; the filter on
\* observations is on.
C25_KnownTokensStayInForce ==
    [][(/\ fnIn' = <<lastFilter'.sat, lastFilter'.obs>>
        /\ epochObs' = epochObs /\ obsIn' = obsIn
        /\ MixedTokens(lastFilter'.sat, lastFilter'.obs)
        /\ SetFilterTokens) =>
          LET known == setFilter(systems, SelectSeq(lastFilter'.sat, KnownSatToken),
                                 SelectSeq(lastFilter'.obs, KnownObsToken))
          IN /\ fnOut' = <<FALSE>>
             /\ systems' = known.systems
             /\ applyObsFilter' /\ known.applyObs]_vars

\* the call setFilter({G05, E}, {GC1C, GL5X}) has returned false, and of the
\* epoch saved after it (G05 L1C, G07 C1C, G05 C1C) only G05 C1C was written
C25_Witness ==
    /\ fnIn = << << <<"G", "0", "5">>, <<"E">> >>,
                 <<[sys |-> "G", obs |-> "C1C"], [sys |-> "G", obs |-> "L5X"]>> >>
    /\ fnOut = <<FALSE>>
    /\ opCount = 5
    /\ Len(obsIn) = 3
    /\ obsOut = <<ObsRecord([sys |-> "G", sat |-> 5, obs |-> "C1C"])>>

(***************************************************************************)
(* Claims on the functions called on their own                              *)
(***************************************************************************)
\* C26: the fit interval is 6 hours for fit flag 0 with IODC 200, 8 hours
\* for fit flag 1 with IODC 240 and 26 hours for fit flag 1 with IODC 1022.
C26_FitIntervalLookup ==
    (pc = "done") =>
        /\ fnIn = <<0, 200>> => fnOut = <<6>>
        /\ fnIn = <<1, 240>> => fnOut = <<8>>
        /\ fnIn = <<1, 1022>> => fnOut = <<26>>

\* C26, amended: the fit interval is 4 hours for fit flag 0 whatever the
\* IODC (so for IODC 200), 8 hours for fit flag 1 with IODC 240, 26 hours
\* for fit flag 1 with IODC 1022 and 6 hours for fit flag 1 with IODC 200.
C26_FitIntervalFourHoursWithoutFlag ==
    (pc = "done") =>
        /\ fnIn[1] = 0 => fnOut = <<4>>
        /\ fnIn = <<1, 240>> => fnOut = <<8>>
        /\ fnIn = <<1, 1022>> => fnOut = <<26>>
        /\ fnIn = <<1, 200>> => fnOut = <<6>>

\* the fit interval of fit flag 0 and IODC 200 has been computed
C26_Witness == pc = "done" /\ fnIn = <<0, 200>> /\ fnOut = <<4>>

\* x, a field of n bits, is below 2^(n-1)
BelowHalf(x, n) == x >= 0 /\ (n = 32 \/ x < 2^(n - 1))

\* C27: for every width n and every n-bit value x, converting the converted
\* value again gives the converted value, and x below 2^(n-1) is converted
\* to itself.
C27_WideningIdempotent ==
    (pc = "twice") =>
        /\ fnOut[2] = fnOut[1]
        /\ BelowHalf(fnIn[1], fnIn[2]) => fnOut[1] = fnIn[1]

\* the parity bits of the changed word that differ from the parity computed
\* for it
MismatchedParityBits == {i \in 0..5 : Bit(fnOut[3], i) # BitOf(fnOut[4], i)}

\* C28: when one of the 24 data bits of a word that passes checkGPSparity
\* is changed, exactly one of the six parity bits does not match, and the
\* check fails.
C28_OneParityBitMismatches ==
    (pc = "done" /\ fnOut[1]) =>
        /\ Cardinality(MismatchedParityBits) = 1
        /\ ~fnOut[2]

\* C28, amended: when one of the 24 data bits of a word that passes
\* checkGPSparity is changed, three or five of the six parity bits do not
\* match (never exactly one), and the check fails.
C28_ThreeOrFiveParityBitsMismatch ==
    (pc = "done" /\ fnOut[1]) =>
        /\ Cardinality(MismatchedParityBits) \in {3, 5}
        /\ ~fnOut[2]

\* d24 of a word with D30 set has been changed: the word passed, the changed
\* word does not, three parity bits differ
C28_Witness ==
    /\ pc = "done"
    /\ fnIn.bit = 6 /\ 30 \in fnIn.word
    /\ fnOut[1] /\ ~fnOut[2]
    /\ Cardinality(MismatchedParityBits) = 3

====
